---------------------------- MODULE Spec2Model ----------------------------
(***************************************************************************)
(* Deck draw-and-replenish mechanism of the systems-thinking tarot         *)
(* (SystemsTarot in systemsTarot.py, TonysTarot in riskTarot.py).          *)
(*                                                                         *)
(* A session owns the catalog (full_deck) and the draw order (deck).       *)
(* reset_and_shuffle replaces the draw order by a shuffled copy of the     *)
(* catalog; draw(n) removes the first n cards, resetting before the        *)
(* removal when the order is too short and after it when fewer than ten    *)
(* cards are left.                                                          *)
(***************************************************************************)
EXTENDS Integers, Sequences, FiniteSets, TLC

(* Card.number is None for the Major Arcana; ranks of the suits are 1..14. *)
NoRank == 0

MAJOR_ARCANA ==
    << [name |-> "The Cascade", card_type |-> "Major", number |-> NoRank],
       [name |-> "The Network", card_type |-> "Major", number |-> NoRank],
       [name |-> "The Threshold", card_type |-> "Major", number |-> NoRank],
       [name |-> "The Emergence", card_type |-> "Major", number |-> NoRank],
       [name |-> "The Collapse", card_type |-> "Major", number |-> NoRank],
       [name |-> "The Resilience", card_type |-> "Major", number |-> NoRank],
       [name |-> "The Attention", card_type |-> "Major", number |-> NoRank],
       [name |-> "The Feedback", card_type |-> "Major", number |-> NoRank],
       [name |-> "The Boundary", card_type |-> "Major", number |-> NoRank],
       [name |-> "The Signal", card_type |-> "Major", number |-> NoRank],
       [name |-> "The Compression", card_type |-> "Major", number |-> NoRank],
       [name |-> "The Archipelago", card_type |-> "Major", number |-> NoRank],
       [name |-> "The Continuity", card_type |-> "Major", number |-> NoRank],
       [name |-> "The Translation", card_type |-> "Major", number |-> NoRank],
       [name |-> "The Vigilance", card_type |-> "Major", number |-> NoRank],
       [name |-> "The Reframe", card_type |-> "Major", number |-> NoRank],
       [name |-> "The Synthesis", card_type |-> "Major", number |-> NoRank],
       [name |-> "The Stewardship", card_type |-> "Major", number |-> NoRank],
       [name |-> "The Release", card_type |-> "Major", number |-> NoRank],
       [name |-> "The Unknown Unknown", card_type |-> "Major", number |-> NoRank],
       [name |-> "The Legacy", card_type |-> "Major", number |-> NoRank],
       [name |-> "The Presence", card_type |-> "Major", number |-> NoRank] >>

create_networks_suit ==
    << [name |-> "Ace of Networks", card_type |-> "Networks", number |-> 1],
       [name |-> "Two of Networks", card_type |-> "Networks", number |-> 2],
       [name |-> "Three of Networks", card_type |-> "Networks", number |-> 3],
       [name |-> "Four of Networks", card_type |-> "Networks", number |-> 4],
       [name |-> "Five of Networks", card_type |-> "Networks", number |-> 5],
       [name |-> "Six of Networks", card_type |-> "Networks", number |-> 6],
       [name |-> "Seven of Networks", card_type |-> "Networks", number |-> 7],
       [name |-> "Eight of Networks", card_type |-> "Networks", number |-> 8],
       [name |-> "Nine of Networks", card_type |-> "Networks", number |-> 9],
       [name |-> "Ten of Networks", card_type |-> "Networks", number |-> 10],
       [name |-> "Page of Networks", card_type |-> "Networks", number |-> 11],
       [name |-> "Knight of Networks", card_type |-> "Networks", number |-> 12],
       [name |-> "Queen of Networks", card_type |-> "Networks", number |-> 13],
       [name |-> "King of Networks", card_type |-> "Networks", number |-> 14] >>

create_events_suit ==
    << [name |-> "Ace of Events", card_type |-> "Events", number |-> 1],
       [name |-> "Two of Events", card_type |-> "Events", number |-> 2],
       [name |-> "Three of Events", card_type |-> "Events", number |-> 3],
       [name |-> "Four of Events", card_type |-> "Events", number |-> 4],
       [name |-> "Five of Events", card_type |-> "Events", number |-> 5],
       [name |-> "Six of Events", card_type |-> "Events", number |-> 6],
       [name |-> "Seven of Events", card_type |-> "Events", number |-> 7],
       [name |-> "Eight of Events", card_type |-> "Events", number |-> 8],
       [name |-> "Nine of Events", card_type |-> "Events", number |-> 9],
       [name |-> "Ten of Events", card_type |-> "Events", number |-> 10],
       [name |-> "Page of Events", card_type |-> "Events", number |-> 11],
       [name |-> "Knight of Events", card_type |-> "Events", number |-> 12],
       [name |-> "Queen of Events", card_type |-> "Events", number |-> 13],
       [name |-> "King of Events", card_type |-> "Events", number |-> 14] >>

create_agents_suit ==
    << [name |-> "Ace of Agents", card_type |-> "Agents", number |-> 1],
       [name |-> "Two of Agents", card_type |-> "Agents", number |-> 2],
       [name |-> "Three of Agents", card_type |-> "Agents", number |-> 3],
       [name |-> "Four of Agents", card_type |-> "Agents", number |-> 4],
       [name |-> "Five of Agents", card_type |-> "Agents", number |-> 5],
       [name |-> "Six of Agents", card_type |-> "Agents", number |-> 6],
       [name |-> "Seven of Agents", card_type |-> "Agents", number |-> 7],
       [name |-> "Eight of Agents", card_type |-> "Agents", number |-> 8],
       [name |-> "Nine of Agents", card_type |-> "Agents", number |-> 9],
       [name |-> "Ten of Agents", card_type |-> "Agents", number |-> 10],
       [name |-> "Page of Agents", card_type |-> "Agents", number |-> 11],
       [name |-> "Knight of Agents", card_type |-> "Agents", number |-> 12],
       [name |-> "Queen of Agents", card_type |-> "Agents", number |-> 13],
       [name |-> "King of Agents", card_type |-> "Agents", number |-> 14] >>

create_resources_suit ==
    << [name |-> "Ace of Resources", card_type |-> "Resources", number |-> 1],
       [name |-> "Two of Resources", card_type |-> "Resources", number |-> 2],
       [name |-> "Three of Resources", card_type |-> "Resources", number |-> 3],
       [name |-> "Four of Resources", card_type |-> "Resources", number |-> 4],
       [name |-> "Five of Resources", card_type |-> "Resources", number |-> 5],
       [name |-> "Six of Resources", card_type |-> "Resources", number |-> 6],
       [name |-> "Seven of Resources", card_type |-> "Resources", number |-> 7],
       [name |-> "Eight of Resources", card_type |-> "Resources", number |-> 8],
       [name |-> "Nine of Resources", card_type |-> "Resources", number |-> 9],
       [name |-> "Ten of Resources", card_type |-> "Resources", number |-> 10],
       [name |-> "Page of Resources", card_type |-> "Resources", number |-> 11],
       [name |-> "Knight of Resources", card_type |-> "Resources", number |-> 12],
       [name |-> "Queen of Resources", card_type |-> "Resources", number |-> 13],
       [name |-> "King of Resources", card_type |-> "Resources", number |-> 14] >>
(***************************************************************************)
(* The catalog of riskTarot.py, the deck TonysTarot.__init__ concatenates. *)
(***************************************************************************)
(* riskTarot.MAJOR_ARCANA                                                  *)
Tonys_MAJOR_ARCANA ==
    << [name |-> "The Cascade", card_type |-> "Major", number |-> NoRank],
       [name |-> "The Mycelium", card_type |-> "Major", number |-> NoRank],
       [name |-> "The Threshold", card_type |-> "Major", number |-> NoRank],
       [name |-> "The Emergence", card_type |-> "Major", number |-> NoRank],
       [name |-> "The Collapse", card_type |-> "Major", number |-> NoRank],
       [name |-> "The Resilience", card_type |-> "Major", number |-> NoRank],
       [name |-> "The Attention", card_type |-> "Major", number |-> NoRank],
       [name |-> "The Feedback", card_type |-> "Major", number |-> NoRank],
       [name |-> "The Boundary", card_type |-> "Major", number |-> NoRank],
       [name |-> "The Signal", card_type |-> "Major", number |-> NoRank],
       [name |-> "The Compression", card_type |-> "Major", number |-> NoRank],
       [name |-> "The Archipelago", card_type |-> "Major", number |-> NoRank],
       [name |-> "The Continuity", card_type |-> "Major", number |-> NoRank],
       [name |-> "The Translation", card_type |-> "Major", number |-> NoRank],
       [name |-> "The Hypervigilance", card_type |-> "Major", number |-> NoRank],
       [name |-> "The Janke", card_type |-> "Major", number |-> NoRank],
       [name |-> "The Synthesis", card_type |-> "Major", number |-> NoRank],
       [name |-> "The Stewardship", card_type |-> "Major", number |-> NoRank],
       [name |-> "The Compression Release", card_type |-> "Major", number |-> NoRank],
       [name |-> "The Unknown Unknown", card_type |-> "Major", number |-> NoRank],
       [name |-> "The Legacy", card_type |-> "Major", number |-> NoRank],
       [name |-> "The Presence", card_type |-> "Major", number |-> NoRank] >>

(* riskTarot.create_networks_suit()                                        *)
Tonys_create_networks_suit ==
    << [name |-> "Ace of Networks", card_type |-> "Networks", number |-> 1],
       [name |-> "Two of Networks", card_type |-> "Networks", number |-> 2],
       [name |-> "Three of Networks", card_type |-> "Networks", number |-> 3],
       [name |-> "Four of Networks", card_type |-> "Networks", number |-> 4],
       [name |-> "Five of Networks", card_type |-> "Networks", number |-> 5],
       [name |-> "Six of Networks", card_type |-> "Networks", number |-> 6],
       [name |-> "Seven of Networks", card_type |-> "Networks", number |-> 7],
       [name |-> "Eight of Networks", card_type |-> "Networks", number |-> 8],
       [name |-> "Nine of Networks", card_type |-> "Networks", number |-> 9],
       [name |-> "Ten of Networks", card_type |-> "Networks", number |-> 10],
       [name |-> "Page of Networks", card_type |-> "Networks", number |-> 11],
       [name |-> "Knight of Networks", card_type |-> "Networks", number |-> 12],
       [name |-> "Queen of Networks", card_type |-> "Networks", number |-> 13],
       [name |-> "King of Networks", card_type |-> "Networks", number |-> 14] >>

(* riskTarot.create_events_suit()                                          *)
Tonys_create_events_suit ==
    << [name |-> "Ace of Events", card_type |-> "Events", number |-> 1],
       [name |-> "Two of Events", card_type |-> "Events", number |-> 2],
       [name |-> "Three of Events", card_type |-> "Events", number |-> 3],
       [name |-> "Four of Events", card_type |-> "Events", number |-> 4],
       [name |-> "Five of Events", card_type |-> "Events", number |-> 5],
       [name |-> "Six of Events", card_type |-> "Events", number |-> 6],
       [name |-> "Seven of Events", card_type |-> "Events", number |-> 7],
       [name |-> "Eight of Events", card_type |-> "Events", number |-> 8],
       [name |-> "Nine of Events", card_type |-> "Events", number |-> 9],
       [name |-> "Ten of Events", card_type |-> "Events", number |-> 10],
       [name |-> "Page of Events", card_type |-> "Events", number |-> 11],
       [name |-> "Knight of Events", card_type |-> "Events", number |-> 12],
       [name |-> "Queen of Events", card_type |-> "Events", number |-> 13],
       [name |-> "King of Events", card_type |-> "Events", number |-> 14] >>

(* riskTarot.create_agents_suit()                                          *)
Tonys_create_agents_suit ==
    << [name |-> "Ace of Agents", card_type |-> "Agents", number |-> 1],
       [name |-> "Two of Agents", card_type |-> "Agents", number |-> 2],
       [name |-> "Three of Agents", card_type |-> "Agents", number |-> 3],
       [name |-> "Four of Agents", card_type |-> "Agents", number |-> 4],
       [name |-> "Five of Agents", card_type |-> "Agents", number |-> 5],
       [name |-> "Six of Agents", card_type |-> "Agents", number |-> 6],
       [name |-> "Seven of Agents", card_type |-> "Agents", number |-> 7],
       [name |-> "Eight of Agents", card_type |-> "Agents", number |-> 8],
       [name |-> "Nine of Agents", card_type |-> "Agents", number |-> 9],
       [name |-> "Ten of Agents", card_type |-> "Agents", number |-> 10],
       [name |-> "Page of Agents", card_type |-> "Agents", number |-> 11],
       [name |-> "Knight of Agents", card_type |-> "Agents", number |-> 12],
       [name |-> "Queen of Agents", card_type |-> "Agents", number |-> 13],
       [name |-> "King of Agents", card_type |-> "Agents", number |-> 14] >>

(* riskTarot.create_resources_suit()                                       *)
Tonys_create_resources_suit ==
    << [name |-> "Ace of Resources", card_type |-> "Resources", number |-> 1],
       [name |-> "Two of Resources", card_type |-> "Resources", number |-> 2],
       [name |-> "Three of Resources", card_type |-> "Resources", number |-> 3],
       [name |-> "Four of Resources", card_type |-> "Resources", number |-> 4],
       [name |-> "Five of Resources", card_type |-> "Resources", number |-> 5],
       [name |-> "Six of Resources", card_type |-> "Resources", number |-> 6],
       [name |-> "Seven of Resources", card_type |-> "Resources", number |-> 7],
       [name |-> "Eight of Resources", card_type |-> "Resources", number |-> 8],
       [name |-> "Nine of Resources", card_type |-> "Resources", number |-> 9],
       [name |-> "Ten of Resources", card_type |-> "Resources", number |-> 10],
       [name |-> "Page of Resources", card_type |-> "Resources", number |-> 11],
       [name |-> "Knight of Resources", card_type |-> "Resources", number |-> 12],
       [name |-> "Queen of Resources", card_type |-> "Resources", number |-> 13],
       [name |-> "King of Resources", card_type |-> "Resources", number |-> 14] >>

(***************************************************************************)
(* The characters of the str objects of the catalog: the names of the      *)
(* cards and the values of card_type.                                      *)
(***************************************************************************)
chars_of(text) ==
    CASE text = "The Cascade" ->
          <<"T", "h", "e", " ", "C", "a", "s", "c", "a", "d", "e">>
      [] text = "The Network" ->
          <<"T", "h", "e", " ", "N", "e", "t", "w", "o", "r", "k">>
      [] text = "The Threshold" ->
          <<"T", "h", "e", " ", "T", "h", "r", "e", "s", "h", "o", "l", "d">>
      [] text = "The Emergence" ->
          <<"T", "h", "e", " ", "E", "m", "e", "r", "g", "e", "n", "c", "e">>
      [] text = "The Collapse" ->
          <<"T", "h", "e", " ", "C", "o", "l", "l", "a", "p", "s", "e">>
      [] text = "The Resilience" ->
          <<"T", "h", "e", " ", "R", "e", "s", "i", "l", "i", "e", "n", "c", "e">>
      [] text = "The Attention" ->
          <<"T", "h", "e", " ", "A", "t", "t", "e", "n", "t", "i", "o", "n">>
      [] text = "The Feedback" ->
          <<"T", "h", "e", " ", "F", "e", "e", "d", "b", "a", "c", "k">>
      [] text = "The Boundary" ->
          <<"T", "h", "e", " ", "B", "o", "u", "n", "d", "a", "r", "y">>
      [] text = "The Signal" ->
          <<"T", "h", "e", " ", "S", "i", "g", "n", "a", "l">>
      [] text = "The Compression" ->
          <<"T", "h", "e", " ", "C", "o", "m", "p", "r", "e", "s", "s", "i", "o", "n">>
      [] text = "The Archipelago" ->
          <<"T", "h", "e", " ", "A", "r", "c", "h", "i", "p", "e", "l", "a", "g", "o">>
      [] text = "The Continuity" ->
          <<"T", "h", "e", " ", "C", "o", "n", "t", "i", "n", "u", "i", "t", "y">>
      [] text = "The Translation" ->
          <<"T", "h", "e", " ", "T", "r", "a", "n", "s", "l", "a", "t", "i", "o", "n">>
      [] text = "The Vigilance" ->
          <<"T", "h", "e", " ", "V", "i", "g", "i", "l", "a", "n", "c", "e">>
      [] text = "The Reframe" ->
          <<"T", "h", "e", " ", "R", "e", "f", "r", "a", "m", "e">>
      [] text = "The Synthesis" ->
          <<"T", "h", "e", " ", "S", "y", "n", "t", "h", "e", "s", "i", "s">>
      [] text = "The Stewardship" ->
          <<"T", "h", "e", " ", "S", "t", "e", "w", "a", "r", "d", "s", "h", "i", "p">>
      [] text = "The Release" ->
          <<"T", "h", "e", " ", "R", "e", "l", "e", "a", "s", "e">>
      [] text = "The Unknown Unknown" ->
          <<"T", "h", "e", " ", "U", "n", "k", "n", "o", "w", "n", " ", "U", "n", "k", "n", "o", "w", "n">>
      [] text = "The Legacy" ->
          <<"T", "h", "e", " ", "L", "e", "g", "a", "c", "y">>
      [] text = "The Presence" ->
          <<"T", "h", "e", " ", "P", "r", "e", "s", "e", "n", "c", "e">>
      [] text = "Ace of Networks" ->
          <<"A", "c", "e", " ", "o", "f", " ", "N", "e", "t", "w", "o", "r", "k", "s">>
      [] text = "Two of Networks" ->
          <<"T", "w", "o", " ", "o", "f", " ", "N", "e", "t", "w", "o", "r", "k", "s">>
      [] text = "Three of Networks" ->
          <<"T", "h", "r", "e", "e", " ", "o", "f", " ", "N", "e", "t", "w", "o", "r", "k", "s">>
      [] text = "Four of Networks" ->
          <<"F", "o", "u", "r", " ", "o", "f", " ", "N", "e", "t", "w", "o", "r", "k", "s">>
      [] text = "Five of Networks" ->
          <<"F", "i", "v", "e", " ", "o", "f", " ", "N", "e", "t", "w", "o", "r", "k", "s">>
      [] text = "Six of Networks" ->
          <<"S", "i", "x", " ", "o", "f", " ", "N", "e", "t", "w", "o", "r", "k", "s">>
      [] text = "Seven of Networks" ->
          <<"S", "e", "v", "e", "n", " ", "o", "f", " ", "N", "e", "t", "w", "o", "r", "k", "s">>
      [] text = "Eight of Networks" ->
          <<"E", "i", "g", "h", "t", " ", "o", "f", " ", "N", "e", "t", "w", "o", "r", "k", "s">>
      [] text = "Nine of Networks" ->
          <<"N", "i", "n", "e", " ", "o", "f", " ", "N", "e", "t", "w", "o", "r", "k", "s">>
      [] text = "Ten of Networks" ->
          <<"T", "e", "n", " ", "o", "f", " ", "N", "e", "t", "w", "o", "r", "k", "s">>
      [] text = "Page of Networks" ->
          <<"P", "a", "g", "e", " ", "o", "f", " ", "N", "e", "t", "w", "o", "r", "k", "s">>
      [] text = "Knight of Networks" ->
          <<"K", "n", "i", "g", "h", "t", " ", "o", "f", " ", "N", "e", "t", "w", "o", "r", "k", "s">>
      [] text = "Queen of Networks" ->
          <<"Q", "u", "e", "e", "n", " ", "o", "f", " ", "N", "e", "t", "w", "o", "r", "k", "s">>
      [] text = "King of Networks" ->
          <<"K", "i", "n", "g", " ", "o", "f", " ", "N", "e", "t", "w", "o", "r", "k", "s">>
      [] text = "Ace of Events" ->
          <<"A", "c", "e", " ", "o", "f", " ", "E", "v", "e", "n", "t", "s">>
      [] text = "Two of Events" ->
          <<"T", "w", "o", " ", "o", "f", " ", "E", "v", "e", "n", "t", "s">>
      [] text = "Three of Events" ->
          <<"T", "h", "r", "e", "e", " ", "o", "f", " ", "E", "v", "e", "n", "t", "s">>
      [] text = "Four of Events" ->
          <<"F", "o", "u", "r", " ", "o", "f", " ", "E", "v", "e", "n", "t", "s">>
      [] text = "Five of Events" ->
          <<"F", "i", "v", "e", " ", "o", "f", " ", "E", "v", "e", "n", "t", "s">>
      [] text = "Six of Events" ->
          <<"S", "i", "x", " ", "o", "f", " ", "E", "v", "e", "n", "t", "s">>
      [] text = "Seven of Events" ->
          <<"S", "e", "v", "e", "n", " ", "o", "f", " ", "E", "v", "e", "n", "t", "s">>
      [] text = "Eight of Events" ->
          <<"E", "i", "g", "h", "t", " ", "o", "f", " ", "E", "v", "e", "n", "t", "s">>
      [] text = "Nine of Events" ->
          <<"N", "i", "n", "e", " ", "o", "f", " ", "E", "v", "e", "n", "t", "s">>
      [] text = "Ten of Events" ->
          <<"T", "e", "n", " ", "o", "f", " ", "E", "v", "e", "n", "t", "s">>
      [] text = "Page of Events" ->
          <<"P", "a", "g", "e", " ", "o", "f", " ", "E", "v", "e", "n", "t", "s">>
      [] text = "Knight of Events" ->
          <<"K", "n", "i", "g", "h", "t", " ", "o", "f", " ", "E", "v", "e", "n", "t", "s">>
      [] text = "Queen of Events" ->
          <<"Q", "u", "e", "e", "n", " ", "o", "f", " ", "E", "v", "e", "n", "t", "s">>
      [] text = "King of Events" ->
          <<"K", "i", "n", "g", " ", "o", "f", " ", "E", "v", "e", "n", "t", "s">>
      [] text = "Ace of Agents" ->
          <<"A", "c", "e", " ", "o", "f", " ", "A", "g", "e", "n", "t", "s">>
      [] text = "Two of Agents" ->
          <<"T", "w", "o", " ", "o", "f", " ", "A", "g", "e", "n", "t", "s">>
      [] text = "Three of Agents" ->
          <<"T", "h", "r", "e", "e", " ", "o", "f", " ", "A", "g", "e", "n", "t", "s">>
      [] text = "Four of Agents" ->
          <<"F", "o", "u", "r", " ", "o", "f", " ", "A", "g", "e", "n", "t", "s">>
      [] text = "Five of Agents" ->
          <<"F", "i", "v", "e", " ", "o", "f", " ", "A", "g", "e", "n", "t", "s">>
      [] text = "Six of Agents" ->
          <<"S", "i", "x", " ", "o", "f", " ", "A", "g", "e", "n", "t", "s">>
      [] text = "Seven of Agents" ->
          <<"S", "e", "v", "e", "n", " ", "o", "f", " ", "A", "g", "e", "n", "t", "s">>
      [] text = "Eight of Agents" ->
          <<"E", "i", "g", "h", "t", " ", "o", "f", " ", "A", "g", "e", "n", "t", "s">>
      [] text = "Nine of Agents" ->
          <<"N", "i", "n", "e", " ", "o", "f", " ", "A", "g", "e", "n", "t", "s">>
      [] text = "Ten of Agents" ->
          <<"T", "e", "n", " ", "o", "f", " ", "A", "g", "e", "n", "t", "s">>
      [] text = "Page of Agents" ->
          <<"P", "a", "g", "e", " ", "o", "f", " ", "A", "g", "e", "n", "t", "s">>
      [] text = "Knight of Agents" ->
          <<"K", "n", "i", "g", "h", "t", " ", "o", "f", " ", "A", "g", "e", "n", "t", "s">>
      [] text = "Queen of Agents" ->
          <<"Q", "u", "e", "e", "n", " ", "o", "f", " ", "A", "g", "e", "n", "t", "s">>
      [] text = "King of Agents" ->
          <<"K", "i", "n", "g", " ", "o", "f", " ", "A", "g", "e", "n", "t", "s">>
      [] text = "Ace of Resources" ->
          <<"A", "c", "e", " ", "o", "f", " ", "R", "e", "s", "o", "u", "r", "c", "e", "s">>
      [] text = "Two of Resources" ->
          <<"T", "w", "o", " ", "o", "f", " ", "R", "e", "s", "o", "u", "r", "c", "e", "s">>
      [] text = "Three of Resources" ->
          <<"T", "h", "r", "e", "e", " ", "o", "f", " ", "R", "e", "s", "o", "u", "r", "c", "e", "s">>
      [] text = "Four of Resources" ->
          <<"F", "o", "u", "r", " ", "o", "f", " ", "R", "e", "s", "o", "u", "r", "c", "e", "s">>
      [] text = "Five of Resources" ->
          <<"F", "i", "v", "e", " ", "o", "f", " ", "R", "e", "s", "o", "u", "r", "c", "e", "s">>
      [] text = "Six of Resources" ->
          <<"S", "i", "x", " ", "o", "f", " ", "R", "e", "s", "o", "u", "r", "c", "e", "s">>
      [] text = "Seven of Resources" ->
          <<"S", "e", "v", "e", "n", " ", "o", "f", " ", "R", "e", "s", "o", "u", "r", "c", "e", "s">>
      [] text = "Eight of Resources" ->
          <<"E", "i", "g", "h", "t", " ", "o", "f", " ", "R", "e", "s", "o", "u", "r", "c", "e", "s">>
      [] text = "Nine of Resources" ->
          <<"N", "i", "n", "e", " ", "o", "f", " ", "R", "e", "s", "o", "u", "r", "c", "e", "s">>
      [] text = "Ten of Resources" ->
          <<"T", "e", "n", " ", "o", "f", " ", "R", "e", "s", "o", "u", "r", "c", "e", "s">>
      [] text = "Page of Resources" ->
          <<"P", "a", "g", "e", " ", "o", "f", " ", "R", "e", "s", "o", "u", "r", "c", "e", "s">>
      [] text = "Knight of Resources" ->
          <<"K", "n", "i", "g", "h", "t", " ", "o", "f", " ", "R", "e", "s", "o", "u", "r", "c", "e", "s">>
      [] text = "Queen of Resources" ->
          <<"Q", "u", "e", "e", "n", " ", "o", "f", " ", "R", "e", "s", "o", "u", "r", "c", "e", "s">>
      [] text = "King of Resources" ->
          <<"K", "i", "n", "g", " ", "o", "f", " ", "R", "e", "s", "o", "u", "r", "c", "e", "s">>
      [] text = "Major" ->
          <<"M", "a", "j", "o", "r">>
      [] text = "Networks" ->
          <<"N", "e", "t", "w", "o", "r", "k", "s">>
      [] text = "Events" ->
          <<"E", "v", "e", "n", "t", "s">>
      [] text = "Agents" ->
          <<"A", "g", "e", "n", "t", "s">>
      [] text = "Resources" ->
          <<"R", "e", "s", "o", "u", "r", "c", "e", "s">>


(***************************************************************************)
(* Bounds of the model.                                                     *)
(***************************************************************************)
(* Outcomes of the random generator are drawn from the seeds 0..MaxSeed.   *)
MaxSeed == 1

(* Number of draw calls followed when a full cycle of the catalog is       *)
(* tracked (SpecCycle).                                                     *)
MaxTracked == 2

(* Number of draw(3) calls of the repeated-draw run (SpecRepeat): three    *)
(* passes through the deck.                                                 *)
MaxRepeat == 72

Seeds == 0 .. MaxSeed

(* Number of draw calls of the one caller of SpecSolo.                      *)
MaxSoloCalls == 3

(* The count of the resets of one call stops at MaxResets.                  *)
MaxResets == 3

(* Threads calling draw on the one session.                                 *)
Callers == {1, 2}

(* Arguments of the calls of SpecSolo and of SpecConc.                      *)
SoloRequests == {0, 10, 68, 69, 79}

ConcRequests == {3, 69}

(* Number of calls made on the two sessions of SpecTwo.                     *)
MaxTwoOps == 3

(* Two sessions constructed independently in one process.                   *)
Sessions == {1, 2}

(* Identities of the list objects the two sessions can hold at a time: two *)
(* each, and the one being created.                                         *)
ListIds == 1 .. 5

(* Arguments of the draw calls of SpecTwo.                                  *)
TwoRequests == {10, 69}

(* main goes through its loop at most MaxLoops times.                       *)
MaxLoops == 3

(* The lines typed at "Enter choice (1-7): ".                               *)
Lines ==
    { <<"1">>, <<"2">>, <<"3">>, <<"4">>, <<"5">>, <<"6">>, <<"7">>,
      <<" ", "7", " ">>, <<"8">>, << >> }

(* generate_all is run at most MaxRuns times.                               *)
MaxRuns == 2

(* The example lists given to examples_to_visuals hold at most            *)
(* MaxExamples strings, each one of ExampleStrings.                         *)
MaxExamples == 4

ExampleStrings ==
    { <<"T", ":", " ", "S", "v", " ">>,
      <<"n", "o">>,
      <<"a", ":", "b", ":", "C">>,
      <<"x", ":">>,
      <<":", "\t", "Y">>,
      << >> }

(* The argument n of the requests made of both classes.                    *)
BothRequests == {0, 10, 68, 69, 79}

(* Arguments of the draw calls of SpecSession.                              *)
SessionRequests == {10, 69}

(* Cards displayed on their own in SpecSession: a Major card and a card of *)
(* a suit.                                                                  *)
DisplayCards == {1, 78}

(* Names of spreads tried: those of both classes and an unknown one.       *)
SpreadTypes == {"single", "three_card", "decision", "system", "threat",
                "archipelago", "batcave", "celtic_cross"}

(* Request sizes tried: an invalid and an empty request, sizes of spreads  *)
(* (1, 3, 6), the low-water mark, and sizes around the largest request     *)
(* that leaves 10 cards (68) and around the size of the catalog (78).      *)
Requests == {-1, 0, 1, 3, 6, 10, 68, 69, 78, 79}

(* Threshold of `if len(self.deck) < 10`.                                   *)
LowWater == 10

(***************************************************************************)
(* Helpers on sequences (Python lists).                                     *)
(***************************************************************************)
Range(s) == {s[i] : i \in DOMAIN s}

Min(a, b) == IF a <= b THEN a ELSE b

Max(a, b) == IF a >= b THEN a ELSE b

(* The position a slice bound n stands for in a list of length len: n      *)
(* itself, counted from the end when negative, kept within 0 .. len.       *)
slice_index(n, len) == IF n >= 0 THEN Min(n, len) ELSE Max(len + n, 0)

(* s[-n:] in place of s[:n]: the cards are taken from the end.             *)
PySliceTo_fromEnd(s, n) ==
    [i \in 1 .. Min(n, Len(s)) |-> s[Len(s) - Min(n, Len(s)) + i]]

(* s[:n] filled up to n elements by starting over at the head of s.       *)
PySliceTo_wraps(s, n) ==
    IF Len(s) = 0 THEN << >> ELSE [i \in 1 .. n |-> s[((i - 1) % Len(s)) + 1]]

(* s[:n]: the first n elements, all of s when n exceeds len(s); for n < 0  *)
(* all but the last -n.                                                     *)
PySliceTo(s, n) == SubSeq(s, 1, slice_index(n, Len(s)))

(* s[n - 1:] in place of s[n:]: the last card taken stays in the list.     *)
PySliceFrom_offByOne(s, n) ==
    IF n - 1 >= Len(s) THEN << >>
    ELSE [i \in 1 .. (Len(s) - (n - 1)) |-> s[(n - 1) + i]]

(* The removal left out: the list stays whole.                              *)
PySliceFrom_keepsAll(s, n) == s

(* s[n:]: s without its first n elements, [] when n >= len(s); for n < 0   *)
(* the last -n elements.                                                    *)
PySliceFrom(s, n) == SubSeq(s, slice_index(n, Len(s)) + 1, Len(s))

(* The suit of agents concatenated twice, the suit of resources left out.  *)
FullDeck_agentsTwice ==
    MAJOR_ARCANA \o create_networks_suit \o create_events_suit
                 \o create_agents_suit \o create_agents_suit

(* The Card objects of self.full_deck =                                     *)
(*     MAJOR_ARCANA + create_networks_suit() + ... + create_resources_suit() *)
FullDeck ==
    MAJOR_ARCANA \o create_networks_suit \o create_events_suit
                 \o create_agents_suit \o create_resources_suit

(***************************************************************************)
(* random.shuffle: Fisher-Yates from the last index down, exchanging x[i]  *)
(* with x[j], j = randbelow(i + 1).  The generator's outcomes are a        *)
(* function of a seed, so that a shuffle is an input of the model.  The    *)
(* exchanges depend on the length of the list and on the seed only, so     *)
(* they are carried out once per length on the list of positions, and      *)
(* shuffle(x, seed) moves the elements of x accordingly.                   *)
(***************************************************************************)
randbelow(seed, k) == ((k * k) \div (seed + 2) + 13 * seed + 5) % k

RECURSIVE shuffle_from(_, _, _)
shuffle_from(x, i, seed) ==
    IF i < 2 THEN x
    ELSE LET j == randbelow(seed, i) + 1
         IN  shuffle_from([x EXCEPT ![i] = x[j], ![j] = x[i]], i - 1, seed)

shuffled_positions ==
    [m \in 0 .. Len(FullDeck), seed \in Seeds |->
        shuffle_from([i \in 1 .. m |-> i], m, seed)]

shuffle(x, seed) == [i \in 1 .. Len(x) |-> x[shuffled_positions[Len(x), seed][i]]]

(***************************************************************************)
(* SystemsTarot / TonysTarot.  A session is a record of its two fields.    *)
(***************************************************************************)
(* A list holds references to Card objects.  A Card object is identified   *)
(* by its position in the catalog built by __init__: refs(x) is the list    *)
(* of the references to the objects of x, in the order of x, and list(x)   *)
(* is a new list holding the references x holds.                            *)
refs(x) == [i \in 1 .. Len(x) |-> i]

(* The Card object a reference stands for.                                  *)
Card(c) == FullDeck[c]

list(x) == [i \in 1 .. Len(x) |-> x[i]]

(* The remainder shuffled in place of a fresh copy of the catalog.         *)
reset_and_shuffle_remainder(self, seed) ==
    [self EXCEPT !.deck = shuffle(self.deck, seed)]

(* self.deck = self.full_deck, without the copy: the shuffle in place      *)
(* reorders the catalog as well.                                            *)
reset_and_shuffle_noCopy(self, seed) ==
    [self EXCEPT !.deck = shuffle(self.full_deck, seed),
                 !.full_deck = shuffle(self.full_deck, seed)]

(* The cards left are kept in front of the fresh shuffle.                   *)
reset_and_shuffle_keepsLeftovers(self, seed) ==
    [self EXCEPT !.deck = self.deck \o shuffle(list(self.full_deck), seed)]

(* self.deck = list(self.full_deck); random.shuffle(self.deck)             *)
reset_and_shuffle(self, seed) ==
    [self EXCEPT !.deck = shuffle(list(self.full_deck), seed)]

(* __init__: build the catalog, then reset_and_shuffle.                     *)
init(seed) ==
    reset_and_shuffle([full_deck |-> refs(FullDeck), deck |-> << >>], seed)

(* if n == 0 in place of if n <= 0.                                         *)
EmptyRequest_zeroOnly(n) == n = 0

(* if n <= 0: return []                                                     *)
EmptyRequest(n) == n <= 0

(* n compared with the length of the catalog in place of the draw order.   *)
NeedsReset_wrongList(n, d) == n > Len(FullDeck)

(* n >= len(self.deck) in place of n > len(self.deck).                      *)
NeedsReset_inclusive(n, d) == n >= Len(d)

(* if n > len(self.deck): reset before drawing                              *)
NeedsReset(n, d) == n > Len(d)

(* Reset only once the draw order is empty.                                 *)
RunningLow_onlyWhenEmpty(d) == Len(d) = 0

(* len(self.deck) < 9 in place of < 10.                                     *)
RunningLow_offByOne(d) == Len(d) < LowWater - 1

(* len(self.deck) <= 10 in place of < 10.                                   *)
RunningLow_inclusive(d) == Len(d) <= LowWater

(* if len(self.deck) < 10: reset after drawing                              *)
RunningLow(d) == Len(d) < LowWater

(***************************************************************************)
(* reading(spread_type): an if/elif chain on the name of the spread; each  *)
(* branch draws a fixed number of cards and displays cards[0], cards[1],   *)
(* ... under its labels.  An unknown name matches no branch.               *)
(***************************************************************************)
Classes == {"SystemsTarot", "TonysTarot"}

(* The five-card spread of TonysTarot, known to SystemsTarot too.          *)
five_card_spread_archipelago(c) == "archipelago"

(* The names of the five-card and of the six-card spread of a class.       *)
five_card_spread(c) == IF c = "SystemsTarot" THEN "system" ELSE "archipelago"

six_card_spread(c) == IF c = "SystemsTarot" THEN "threat" ELSE "batcave"

known_spread(c, spread_type) ==
    spread_type \in {"single", "three_card", "decision",
                     five_card_spread(c), six_card_spread(c)}

(* The decision branch drawing three cards: cards = self.draw(3).           *)
spread_draws_decisionThree(c, spread_type) ==
    CASE spread_type = "single" -> 1
      [] spread_type = "three_card" -> 3
      [] spread_type = "decision" -> 3
      [] spread_type = five_card_spread(c) -> 5
      [] spread_type = six_card_spread(c) -> 6
      [] OTHER -> 0

(* The six-card branch drawing five cards: cards = self.draw(5).            *)
spread_draws_sixDrawsFive(c, spread_type) ==
    CASE spread_type = "single" -> 1
      [] spread_type = "three_card" -> 3
      [] spread_type = "decision" -> 4
      [] spread_type = five_card_spread(c) -> 5
      [] spread_type = six_card_spread(c) -> 5
      [] OTHER -> 0

(* The n of cards = self.draw(n) in the branch of a spread.                 *)
spread_draws(c, spread_type) ==
    CASE spread_type = "single" -> 1
      [] spread_type = "three_card" -> 3
      [] spread_type = "decision" -> 4
      [] spread_type = five_card_spread(c) -> 5
      [] spread_type = six_card_spread(c) -> 6
      [] OTHER -> 0

(* The number of cards[i].display() calls in the branch of a spread.        *)
spread_labels(c, spread_type) ==
    CASE spread_type = "single" -> 1
      [] spread_type = "three_card" -> 3
      [] spread_type = "decision" -> 4
      [] spread_type = five_card_spread(c) -> 5
      [] spread_type = six_card_spread(c) -> 6
      [] OTHER -> 0

(* draw with a reset on the empty request:                                  *)
(*     if n <= 0: self.reset_and_shuffle(); return []                       *)
draw_resetOnEmptyRequest(self, n, s1, s2) ==
    IF EmptyRequest(n)
    THEN [ret |-> << >>, self |-> reset_and_shuffle(self, s1), pre |-> TRUE,
          low |-> FALSE, atRemoval |-> self.deck, left |-> self.deck]
    ELSE LET pre   == NeedsReset(n, self.deck)
             self1 == IF pre THEN reset_and_shuffle(self, s1) ELSE self
             drawn == PySliceTo(self1.deck, n)
             self2 == [self1 EXCEPT !.deck = PySliceFrom(self1.deck, n)]
             low   == RunningLow(self2.deck)
             self3 == IF low THEN reset_and_shuffle(self2, s2) ELSE self2
         IN  [ret |-> drawn, self |-> self3, pre |-> pre, low |-> low,
              atRemoval |-> self1.deck, left |-> self2.deck]

(* draw(n), with the generator's outcomes s1 (reset before the removal)    *)
(* and s2 (reset after it).  The result records the returned list, the     *)
(* session afterwards, and what the call did on the way: whether each      *)
(* reset ran, the order the cards were removed from, and the order the     *)
(* removal left.                                                            *)
draw(self, n, s1, s2) ==
    IF EmptyRequest(n)
    THEN [ret |-> << >>, self |-> self, pre |-> FALSE, low |-> FALSE,
          atRemoval |-> self.deck, left |-> self.deck]
    ELSE LET pre   == NeedsReset(n, self.deck)
             self1 == IF pre THEN reset_and_shuffle(self, s1) ELSE self
             drawn == PySliceTo(self1.deck, n)
             self2 == [self1 EXCEPT !.deck = PySliceFrom(self1.deck, n)]
             low   == RunningLow(self2.deck)
             self3 == IF low THEN reset_and_shuffle(self2, s2) ELSE self2
         IN  [ret |-> drawn, self |-> self3, pre |-> pre, low |-> low,
              atRemoval |-> self1.deck, left |-> self2.deck]

(* reading(spread_type) on a session of class c.  The result records the   *)
(* draw calls made (none for an unknown spread), the cards displayed in    *)
(* label order, and whether cards[i] was indexed past the end of cards.    *)
reading(c, self, spread_type, s1, s2) ==
    IF known_spread(c, spread_type)
    THEN LET n      == spread_draws(c, spread_type)
             cards  == draw(self, n, s1, s2)
             labels == spread_labels(c, spread_type)
         IN  [draws |-> <<[n |-> n, call |-> cards]>>,
              shown |-> [i \in 1 .. Min(labels, Len(cards.ret)) |->
                             cards.ret[i]],
              error |-> labels > Len(cards.ret)]
    ELSE [draws |-> << >>, shown |-> << >>, error |-> FALSE]

(* list_all_cards: prints the names of the cards of MAJOR_ARCANA, then the *)
(* fourteen rank names of each of the four suits; it reads no attribute of *)
(* self.                                                                    *)
list_all_cards_dealsAll(self) ==
    [self |-> [self EXCEPT !.deck = << >>],
     out  |-> <<"COMPLETE DECK", Len(MAJOR_ARCANA), 4 * 14>>]

list_all_cards(self) ==
    [self |-> self,
     out  |-> <<"COMPLETE DECK", Len(MAJOR_ARCANA), 4 * 14>>]

(* Card.display: prints a header, with (Major Arcana) for a Major card,    *)
(* and the fields of the card.                                              *)
display(card) ==
    IF card.card_type = "Major"
    THEN <<card.name, "(Major Arcana)">>
    ELSE <<card.name>>

(***************************************************************************)
(* TonysTarot of riskTarot.py, translated from its own source.              *)
(***************************************************************************)
(* self.full_deck = MAJOR_ARCANA + create_networks_suit() + ...             *)
TonysFullDeck ==
    Tonys_MAJOR_ARCANA \o Tonys_create_networks_suit
                       \o Tonys_create_events_suit
                       \o Tonys_create_agents_suit
                       \o Tonys_create_resources_suit

(* if len(self.deck) < 10                                                   *)
TonysLowWater == 10

(* self.deck = list(self.full_deck); random.shuffle(self.deck)             *)
tonys_reset_and_shuffle(self, seed) ==
    [self EXCEPT !.deck = shuffle(list(self.full_deck), seed)]

(* TonysTarot.__init__                                                      *)
tonys_init(seed) ==
    tonys_reset_and_shuffle(
        [full_deck |-> refs(TonysFullDeck), deck |-> << >>], seed)

(* The reset after the removal at fewer than nine cards left.               *)
tonys_draw_lowWaterNine(self, n, s1, s2) ==
    IF n <= 0
    THEN [ret |-> << >>, self |-> self]
    ELSE LET self1 == IF n > Len(self.deck)
                      THEN tonys_reset_and_shuffle(self, s1) ELSE self
             drawn == PySliceTo(self1.deck, n)
             self2 == [self1 EXCEPT !.deck = PySliceFrom(self1.deck, n)]
             self3 == IF Len(self2.deck) < TonysLowWater - 1
                      THEN tonys_reset_and_shuffle(self2, s2) ELSE self2
         IN  [ret |-> drawn, self |-> self3]

(* TonysTarot.draw(n), with the generator's outcomes s1 and s2.             *)
tonys_draw(self, n, s1, s2) ==
    IF n <= 0
    THEN [ret |-> << >>, self |-> self]
    ELSE LET self1 == IF n > Len(self.deck)
                      THEN tonys_reset_and_shuffle(self, s1) ELSE self
             drawn == PySliceTo(self1.deck, n)
             self2 == [self1 EXCEPT !.deck = PySliceFrom(self1.deck, n)]
             self3 == IF Len(self2.deck) < TonysLowWater
                      THEN tonys_reset_and_shuffle(self2, s2) ELSE self2
         IN  [ret |-> drawn, self |-> self3]

(***************************************************************************)
(* generate_prompts.py.  A str is the sequence of its characters.           *)
(***************************************************************************)
ascii_uppercase ==
    <<"A", "B", "C", "D", "E", "F", "G", "H", "I", "J", "K", "L", "M",
      "N", "O", "P", "Q", "R", "S", "T", "U", "V", "W", "X", "Y", "Z">>

ascii_lowercase ==
    <<"a", "b", "c", "d", "e", "f", "g", "h", "i", "j", "k", "l", "m",
      "n", "o", "p", "q", "r", "s", "t", "u", "v", "w", "x", "y", "z">>

(* The characters str.strip() removes from both ends.                       *)
whitespace == {" ", "\t", "\n", "\r", "\f"}

(* str.lower of one character.                                              *)
lower_char(ch) ==
    IF ch \in Range(ascii_uppercase)
    THEN ascii_lowercase[CHOOSE i \in DOMAIN ascii_uppercase :
                             ascii_uppercase[i] = ch]
    ELSE ch

(* text.lower()                                                             *)
str_lower(text) == [i \in 1 .. Len(text) |-> lower_char(text[i])]

(* text.lstrip(chars), text.rstrip(chars), text.strip(chars)                *)
RECURSIVE str_lstrip(_, _)
str_lstrip(text, chars) ==
    IF text # << >> /\ Head(text) \in chars
    THEN str_lstrip(Tail(text), chars)
    ELSE text

RECURSIVE str_rstrip(_, _)
str_rstrip(text, chars) ==
    IF text # << >> /\ text[Len(text)] \in chars
    THEN str_rstrip(SubSeq(text, 1, Len(text) - 1), chars)
    ELSE text

(* strip with lstrip alone.                                                 *)
str_strip_leftOnly(text, chars) == str_lstrip(text, chars)

str_strip(text, chars) == str_rstrip(str_lstrip(text, chars), chars)

(* text.find(ch, i - 1) + 1: the first index from i on that holds ch, 0    *)
(* when there is none.                                                      *)
RECURSIVE str_find(_, _, _)
str_find(text, ch, i) ==
    IF i > Len(text) THEN 0
    ELSE IF text[i] = ch THEN i
    ELSE str_find(text, ch, i + 1)

(* split at the last occurrence of sep.                                     *)
str_split_once_atLast(text, sep) ==
    LET at == {i \in 1 .. Len(text) : text[i] = sep}
        p  == CHOOSE i \in at : \A j \in at : j <= i
    IN  IF at = {} THEN <<text>>
        ELSE <<SubSeq(text, 1, p - 1), SubSeq(text, p + 1, Len(text))>>

(* text.split(sep, 1), sep one character                                    *)
str_split_once(text, sep) ==
    LET p == str_find(text, sep, 1)
    IN  IF p = 0 THEN <<text>>
        ELSE <<SubSeq(text, 1, p - 1), SubSeq(text, p + 1, Len(text))>>

(* sep.join(xs)                                                             *)
RECURSIVE str_join(_, _)
str_join(sep, xs) ==
    IF xs = << >> THEN << >>
    ELSE IF Len(xs) = 1 THEN xs[1]
    ELSE xs[1] \o sep \o str_join(sep, Tail(xs))

(* visuals[:3]                                                              *)
VisualsCap == 3

(* The loop of examples_to_visuals: the list visuals after the examples    *)
(* have been gone through in order.                                         *)
RECURSIVE visuals_of(_)
visuals_of(exs) ==
    IF exs = << >> THEN << >>
    ELSE LET parts == str_split_once(Head(exs), ":")
         IN  (IF Len(parts) = 2
              THEN <<str_lower(str_strip(parts[2], whitespace))>>
              ELSE << >>) \o visuals_of(Tail(exs))

(* The cap applied to the examples, before the strings without a colon    *)
(* are left out.                                                            *)
examples_to_visuals_capsExamples(exs) ==
    [visuals |-> visuals_of(PySliceTo(exs, VisualsCap)),
     ret     |-> str_join(<<";", " ">>,
                          visuals_of(PySliceTo(exs, VisualsCap)))]

(* examples_to_visuals(examples): the list visuals at the return and the   *)
(* string returned.                                                         *)
examples_to_visuals(exs) ==
    [visuals |-> visuals_of(exs),
     ret     |-> str_join(<<";", " ">>,
                          PySliceTo(visuals_of(exs), VisualsCap))]

digits == <<"0", "1", "2", "3", "4", "5", "6", "7", "8", "9">>

(* str(n), n >= 0                                                           *)
RECURSIVE str_int(_)
str_int(n) ==
    IF n < 10 THEN <<digits[n + 1]>>
    ELSE str_int(n \div 10) \o <<digits[(n % 10) + 1]>>

(* f"{n}" in place of f"{n:02d}".                                           *)
format_02d_unpadded(n) == str_int(n)

(* f"{n:02d}": the digits of n, with zeros in front up to two characters.   *)
format_02d(n) ==
    [i \in 1 .. Max(0, 2 - Len(str_int(n))) |-> "0"] \o str_int(n)

(* The characters of [a-z0-9].                                              *)
slug_chars == Range(ascii_lowercase) \cup Range(digits)

(* re.sub(r"[^a-z0-9]+", "_", text): every longest run of characters       *)
(* outside [a-z0-9] becomes one underscore.                                 *)
RECURSIVE skip_run(_)
skip_run(text) ==
    IF text # << >> /\ Head(text) \notin slug_chars
    THEN skip_run(Tail(text))
    ELSE text

RECURSIVE re_sub_runs(_)
re_sub_runs(text) ==
    IF text = << >> THEN << >>
    ELSE IF Head(text) \in slug_chars
    THEN <<Head(text)>> \o re_sub_runs(Tail(text))
    ELSE <<"_">> \o re_sub_runs(skip_run(text))

(* slugify(text)                                                            *)
slugify(text) == str_strip(re_sub_runs(str_lower(text)), {"_"})

(* f"major_{i:02d}_{slugify(card.name)}.txt"                                *)
major_filename(i, card) ==
    <<"m", "a", "j", "o", "r", "_">> \o format_02d(i) \o <<"_">>
        \o slugify(chars_of(card.name)) \o <<".", "t", "x", "t">>

(* f"{suit_prefix}_{card.number:02d}_{slugify(card.name)}.txt"              *)
minor_filename(suit_prefix, card) ==
    suit_prefix \o <<"_">> \o format_02d(card.number) \o <<"_">>
        \o slugify(chars_of(card.name)) \o <<".", "t", "x", "t">>

(* The prompts.  A prompt is made of constants of the module and of fields *)
(* of the card, index is not used; it is kept as the constants' names and  *)
(* the fields of the card the catalog holds.                                *)
build_major_prompt(card, index) ==
    <<"MAJOR_STYLE", card.name, "Major Arcana">>

build_minor_prompt(card) ==
    <<"SUIT_STYLES", card.card_type, card.name, card.number, "RANK_CUES">>

(* suits = [("networks", create_networks_suit()), ...]                      *)
suits ==
    << [suit_prefix |-> <<"n", "e", "t", "w", "o", "r", "k", "s">>, cards |-> create_networks_suit],
       [suit_prefix |-> <<"e", "v", "e", "n", "t", "s">>, cards |-> create_events_suit],
       [suit_prefix |-> <<"a", "g", "e", "n", "t", "s">>, cards |-> create_agents_suit],
       [suit_prefix |-> <<"r", "e", "s", "o", "u", "r", "c", "e", "s">>, cards |-> create_resources_suit] >>

(* The passes of the body of the two nested loops over suits, in order.     *)
RECURSIVE minor_passes_from(_)
minor_passes_from(k) ==
    IF k > Len(suits) THEN << >>
    ELSE [i \in 1 .. Len(suits[k].cards) |->
             [suit_prefix |-> suits[k].suit_prefix,
              card |-> suits[k].cards[i]]] \o minor_passes_from(k + 1)

minor_passes == minor_passes_from(1)

(* with open(path, "w") as f: f.write(prompt + "\n")                        *)
write_file(fs, filename, prompt) ==
    [f \in DOMAIN fs \cup {filename} |->
        IF f = filename THEN <<prompt, "\n">> ELSE fs[f]]

(***************************************************************************)
(* main of systemsTarot.py and of riskTarot.py.                             *)
(***************************************************************************)
(* The choices that end in a call of tarot.reading.                         *)
reading_choices == {<<"1">>, <<"2">>, <<"3">>, <<"4">>, <<"5">>}

(* The argument of tarot.reading in the branch of the choice ch, in main   *)
(* of the module of class c.                                                *)
main_spread(c, ch) ==
    CASE ch = <<"1">> -> "single"
      [] ch = <<"2">> -> "three_card"
      [] ch = <<"3">> -> "decision"
      [] ch = <<"4">> -> IF c = "SystemsTarot" THEN "system"
                                               ELSE "archipelago"
      [] ch = <<"5">> -> IF c = "SystemsTarot" THEN "threat" ELSE "batcave"

(***************************************************************************)
(* State.                                                                   *)
(***************************************************************************)
VARIABLES
    full_deck,      \* self.full_deck, the catalog held by the session, as
                    \* references to the cards of FullDeck
    deck,           \* self.deck, the draw order
    lastOp,         \* the last operation: "init", "draw", "reset_and_shuffle"
    lastN,          \* the request n, when the last operation is a draw
    drawn,          \* the list it returned
    deckBefore,     \* the draw order when the last operation started
    atRemoval,      \* the draw order the draw removed cards from
    left,           \* the draw order right after that removal
    preReset,       \* the draw reset before the removal
    lowReset,       \* the draw reset after the removal
    prevLow,        \* the removal of the most recent draw call before the
                    \* last operation left fewer than LowWater cards
    epoch,          \* cards returned since the most recent reset
    epochPrior,     \* cards returned in the epoch the last removal was made in,
                    \* before that removal
    epochBefore,    \* epoch when the last operation started
    cycleSeen,      \* cards returned in the current cycle through the catalog
    cyclePrior,     \* cycleSeen when the last draw call started
    cycleReset,     \* a reset has run since the current cycle started
    cycleResetPrior,\* a reset had run in the cycle before the last removal
    tracked,        \* number of draw calls followed by the cycle tracking
    calls,          \* number of draw(3) calls made in the repeated-draw run
    cls,            \* the class of the session: SystemsTarot or TonysTarot
    spread,         \* spread_type of the last reading
    shown,          \* the cards the last reading displayed, in label order
    readingDraws,   \* number of draw calls the last reading made
    readingError,   \* the last reading indexed past the cards it drew
    pc,             \* per caller: the statement of draw it is at
    arg_n,          \* per caller: the argument n of its call
    loc_drawn,      \* per caller: the local variable drawn
    loc_rest,       \* per caller: self.deck[n:] evaluated, not yet stored
    ret_to,         \* per caller: where reset_and_shuffle returns to
    ret,            \* per caller: the list its call returned
    resets,         \* per caller: reset_and_shuffle calls of its call
    mine,           \* per caller: self.deck is the list its reset created
    sliced,         \* callers that read their cards off the present order
    slicedWith,     \* per caller: who had read off the order it read from
    interleaved,    \* a call has started while another was running
    started,        \* number of calls started
    heap,           \* the list objects of two sessions, by identity
    sess,           \* per session: the lists its attributes refer to
    s_drawn,        \* per session: the cards its last draw returned
    s_epochPrior,   \* per session: epochPrior of its last draw
    s_epoch,        \* per session: cards returned since its last reset
    lastOn,         \* the session the last call was made on, 0 for none
    lastKind,       \* the method of that call
    othersBefore,   \* draw orders of the other sessions before that call
    twoOps,         \* number of calls made on the two sessions
    out,            \* what the last list_all_cards or display printed
    mainPc,         \* main: at the menu, at the pause, or ended
    choice,         \* main: the last choice read, stripped
    loops,          \* main: number of inputs read at the menu
    tonys,          \* a TonysTarot session driven in step with the session
    tonysDrawn,     \* the cards the last draw on it returned
    files,          \* resources/prompts: the content of each file, by name
    generated,      \* generate_all: the list generated of the present run
    runs,           \* generate_all: number of runs completed
    examples,       \* examples_to_visuals: the argument
    visuals,        \* examples_to_visuals: the list visuals
    result          \* examples_to_visuals: the string returned

vars == <<full_deck, deck, lastOp, lastN, drawn, deckBefore, atRemoval, left,
          preReset, lowReset, prevLow, epoch, epochPrior, epochBefore,
          cycleSeen, cyclePrior, cycleReset, cycleResetPrior, tracked,
          calls, cls, spread, shown, readingDraws, readingError,
          pc, arg_n, loc_drawn, loc_rest, ret_to, ret, resets, mine, sliced,
          slicedWith, interleaved, started,
          heap, sess, s_drawn, s_epochPrior, s_epoch, lastOn, lastKind,
          othersBefore, twoOps,
          out, mainPc, choice, loops, tonys, tonysDrawn, files, generated,
          runs, examples, visuals, result>>

cycleVars == <<cycleSeen, cyclePrior, cycleReset, cycleResetPrior, tracked>>

readingVars == <<spread, shown, readingDraws, readingError>>

twoVars == <<heap, sess, s_drawn, s_epochPrior, s_epoch, lastOn, lastKind,
             othersBefore, twoOps>>

mainVars == <<mainPc, choice, loops>>

bothVars == <<tonys, tonysDrawn>>

promptVars == <<files, generated, runs>>

exVars == <<examples, visuals, result>>

(* The variables of main, of the second class and of generate_prompts.     *)
toolVars == <<mainVars, bothVars, promptVars, exVars>>

stepVars == <<pc, arg_n, loc_drawn, loc_rest, ret_to, ret, resets, mine,
              sliced, slicedWith, interleaved, started>>

drawVars == <<full_deck, deck, lastOp, lastN, drawn, deckBefore, atRemoval,
              left, preReset, lowReset, prevLow, epoch, epochPrior,
              epochBefore>>

session == [full_deck |-> full_deck, deck |-> deck]

(* The cards of the session's catalog.                                      *)
Catalog == Range(full_deck)

(* The state after tarot = c(), c the class of the session, but for the    *)
(* variables of the two sessions.                                           *)
InitOne(c) ==
    \E seed \in Seeds :
        /\ full_deck = init(seed).full_deck
        /\ deck = init(seed).deck
        /\ lastOp = "init"
        /\ lastN = 0
        /\ drawn = << >>
        /\ deckBefore = deck
        /\ atRemoval = deck
        /\ left = deck
        /\ preReset = FALSE
        /\ lowReset = FALSE
        /\ prevLow = FALSE
        /\ epoch = {}
        /\ epochPrior = {}
        /\ epochBefore = {}
        /\ cycleSeen = {}
        /\ cyclePrior = {}
        /\ cycleReset = FALSE
        /\ cycleResetPrior = FALSE
        /\ tracked = 0
        /\ calls = 0
        /\ cls = c
        /\ spread = ""
        /\ shown = << >>
        /\ readingDraws = 0
        /\ readingError = FALSE
        /\ pc = [k \in Callers |-> "idle"]
        /\ arg_n = [k \in Callers |-> 0]
        /\ loc_drawn = [k \in Callers |-> << >>]
        /\ loc_rest = [k \in Callers |-> << >>]
        /\ ret_to = [k \in Callers |-> "done"]
        /\ ret = [k \in Callers |-> << >>]
        /\ resets = [k \in Callers |-> 0]
        /\ mine = [k \in Callers |-> FALSE]
        /\ sliced = {}
        /\ slicedWith = [k \in Callers |-> {}]
        /\ interleaved = FALSE
        /\ started = 0

(* No second session.                                                       *)
NoSessions ==
    /\ heap = [id \in ListIds |-> << >>]
    /\ sess = [s \in Sessions |-> [full_deck |-> 0, deck |-> 0]]
    /\ s_drawn = [s \in Sessions |-> << >>]
    /\ s_epochPrior = [s \in Sessions |-> {}]
    /\ s_epoch = [s \in Sessions |-> {}]
    /\ lastOn = 0
    /\ lastKind = ""
    /\ othersBefore = << >>
    /\ twoOps = 0

(* main has not started.                                                    *)
NoMain ==
    /\ out = << >>
    /\ mainPc = "off"
    /\ choice = << >>
    /\ loops = 0

(* No TonysTarot session beside the session.                                *)
NoTonys ==
    /\ tonys = [full_deck |-> << >>, deck |-> << >>]
    /\ tonysDrawn = << >>

(* generate_prompts has not run.                                            *)
NoPrompts ==
    /\ files = << >>
    /\ generated = << >>
    /\ runs = 0
    /\ examples = << >>
    /\ visuals = << >>
    /\ result = << >>

(* The state after tarot = c(), c the class of the session.                 *)
InitOf(c) == InitOne(c) /\ NoSessions /\ NoMain /\ NoTonys /\ NoPrompts

Init == InitOf("SystemsTarot")

(***************************************************************************)
(* Operations.                                                              *)
(***************************************************************************)
(* The removal of the most recent draw call left fewer than LowWater       *)
(* cards.                                                                   *)
LastDrawLow == IF lastOp = "draw" THEN Len(left) < LowWater ELSE prevLow

(* The part of a draw call common to both specifications.                   *)
DrawCall(r, n) ==
    /\ full_deck' = r.self.full_deck
    /\ deck' = r.self.deck
    /\ lastOp' = "draw"
    /\ lastN' = n
    /\ drawn' = r.ret
    /\ deckBefore' = deck
    /\ atRemoval' = r.atRemoval
    /\ left' = r.left
    /\ preReset' = r.pre
    /\ lowReset' = r.low
    /\ prevLow' = LastDrawLow
    /\ epochBefore' = epoch
    /\ epochPrior' = IF r.pre THEN {} ELSE epoch
    /\ epoch' = IF r.low THEN {} ELSE epochPrior' \cup Range(r.ret)

(* An outcome of the generator that a call does not consume is taken to   *)
(* be 0, so that a call is one step whatever the unused outcome.           *)
Consumed(r, s1, s2) == (r.pre \/ s1 = 0) /\ (r.low \/ s2 = 0)

(* The last call was no reading.                                            *)
ClearReading ==
    /\ spread' = ""
    /\ shown' = << >>
    /\ readingDraws' = 0
    /\ readingError' = FALSE

(* The last call was none of reading, list_all_cards and display.           *)
NoReading == ClearReading /\ out' = << >>

(* A call of the method op that makes no draw and leaves the session as    *)
(* self.                                                                    *)
PlainCall(op, self) ==
    /\ full_deck' = self.full_deck
    /\ deck' = self.deck
    /\ lastOp' = op
    /\ lastN' = 0
    /\ drawn' = << >>
    /\ deckBefore' = deck
    /\ atRemoval' = self.deck
    /\ left' = self.deck
    /\ preReset' = FALSE
    /\ lowReset' = FALSE
    /\ prevLow' = LastDrawLow
    /\ epochBefore' = epoch
    /\ epochPrior' = epoch
    /\ epoch' = epoch

(* tarot.draw(n)                                                            *)
Draw(n, s1, s2) ==
    /\ \E r \in {draw(session, n, s1, s2)} :
           Consumed(r, s1, s2) /\ DrawCall(r, n)
    /\ NoReading
    /\ UNCHANGED <<cycleVars, calls, cls, stepVars, twoVars, toolVars>>

(* tarot.reset_and_shuffle()                                                *)
ResetAndShuffle(seed) ==
    /\ \E s \in {reset_and_shuffle(session, seed)} :
           /\ full_deck' = s.full_deck
           /\ deck' = s.deck
           /\ atRemoval' = s.deck
           /\ left' = s.deck
    /\ lastOp' = "reset_and_shuffle"
    /\ lastN' = 0
    /\ drawn' = << >>
    /\ deckBefore' = deck
    /\ preReset' = FALSE
    /\ lowReset' = FALSE
    /\ prevLow' = LastDrawLow
    /\ epoch' = {}
    /\ epochPrior' = {}
    /\ epochBefore' = epoch
    /\ NoReading
    /\ UNCHANGED <<cycleVars, calls, cls, stepVars, twoVars, toolVars>>

(* tarot.draw(n), n <= 78, with the cycle through the catalog followed: a  *)
(* cycle starts at construction and again when every card of the catalog   *)
(* has been returned.                                                       *)
DrawTracked(n, s1, s2) ==
    \E r \in {draw(session, n, s1, s2)} :
    LET seen == cycleSeen \cup Range(r.ret)
    IN  /\ tracked < MaxTracked
        /\ n <= Len(full_deck)
        /\ Consumed(r, s1, s2)
        /\ DrawCall(r, n)
        /\ tracked' = tracked + 1
        /\ cyclePrior' = cycleSeen
        /\ cycleResetPrior' = (cycleReset \/ r.pre)
        /\ cycleSeen' = IF seen = Catalog THEN {} ELSE seen
        /\ cycleReset' = IF seen = Catalog THEN FALSE
                         ELSE (cycleReset \/ r.pre \/ r.low)
        /\ UNCHANGED <<calls, cls, readingVars, stepVars, twoVars,
                   out, toolVars>>

(* tarot.draw(3), repeated.                                                 *)
DrawThree(s1, s2) ==
    /\ calls < MaxRepeat
    /\ \E r \in {draw(session, 3, s1, s2)} :
           Consumed(r, s1, s2) /\ DrawCall(r, 3)
    /\ calls' = calls + 1
    /\ UNCHANGED <<cycleVars, cls, readingVars, stepVars, twoVars,
                   out, toolVars>>

(* What tarot.reading(spread_type) does to the session.                     *)
ReadingCall(spread_type, s1, s2) ==
    /\ \E rd \in {reading(cls, session, spread_type, s1, s2)} :
           /\ IF rd.draws = << >>
              THEN s1 = 0 /\ s2 = 0 /\ PlainCall("reading", session)
              ELSE /\ Consumed(rd.draws[1].call, s1, s2)
                   /\ DrawCall(rd.draws[1].call, rd.draws[1].n)
           /\ shown' = rd.shown
           /\ readingDraws' = Len(rd.draws)
           /\ readingError' = rd.error
    /\ spread' = spread_type
    /\ out' = << >>

(* tarot.reading(spread_type)                                               *)
Reading(spread_type, s1, s2) ==
    /\ ReadingCall(spread_type, s1, s2)
    /\ UNCHANGED <<cycleVars, calls, cls, stepVars, twoVars, toolVars>>

(* tarot.list_all_cards()                                                   *)
ListAllCards ==
    /\ \E r \in {list_all_cards(session)} :
           PlainCall("list_all_cards", r.self) /\ out' = r.out
    /\ ClearReading
    /\ UNCHANGED <<cycleVars, calls, cls, stepVars, twoVars, toolVars>>

(* card.display(), card a card of the catalog                               *)
Display(card) ==
    /\ PlainCall("display", session)
    /\ out' = display(Card(card))
    /\ ClearReading
    /\ UNCHANGED <<cycleVars, calls, cls, stepVars, twoVars, toolVars>>

(***************************************************************************)
(* draw statement by statement, for callers that share the session.  A     *)
(* caller is at "idle" before its call, at "done" after its return, and    *)
(* otherwise at the statement it executes next.  The in-place swaps of     *)
(* random.shuffle are taken as one step.                                    *)
(* choice = input("\nEnter choice (1-7): ").strip() returns, and the      *)
(* branch of the choice runs, up to the break or to the next input.         *)
EnterChoice(line, s1, s2) ==
    /\ mainPc = "menu"
    /\ loops < MaxLoops
    /\ loops' = loops + 1
    /\ choice' = str_strip(line, whitespace)
    /\ \/ /\ choice' \in reading_choices
          /\ ReadingCall(main_spread(cls, choice'), s1, s2)
          /\ mainPc' = "pause"
       \/ /\ choice' = <<"6">>
          /\ s1 = 0 /\ s2 = 0
          /\ \E r \in {list_all_cards(session)} :
                 PlainCall("list_all_cards", r.self) /\ out' = r.out
          /\ ClearReading
          /\ mainPc' = "pause"
       \/ /\ choice' = <<"7">>
          /\ s1 = 0 /\ s2 = 0
          /\ PlainCall("break", session)
          /\ NoReading
          /\ mainPc' = "exited"
       \/ /\ choice' \notin reading_choices \cup {<<"6">>, <<"7">>}
          /\ s1 = 0 /\ s2 = 0
          /\ PlainCall("invalid", session)
          /\ NoReading
          /\ mainPc' = "pause"
    /\ UNCHANGED <<cycleVars, calls, cls, stepVars, twoVars, bothVars,
                   promptVars, exVars>>

(* input("\nPress Enter to continue...") returns; the loop starts over.     *)
PressEnter ==
    /\ mainPc = "pause"
    /\ mainPc' = "menu"
    /\ UNCHANGED <<drawVars, readingVars, out, cycleVars, calls, cls,
                   stepVars, twoVars, choice, loops, bothVars, promptVars,
                   exVars>>

(* The input is at its end: input raises EOFError, which nothing catches,  *)
(* and main ends with the exception.                                        *)
EndOfInput ==
    /\ mainPc \in {"menu", "pause"}
    /\ mainPc' = "raised"
    /\ UNCHANGED <<drawVars, readingVars, out, cycleVars, calls, cls,
                   stepVars, twoVars, choice, loops, bothVars, promptVars,
                   exVars>>

(* generate_all is called: generated = [].  A run is over when every card  *)
(* has its entry in generated.                                              *)
GenerateAll ==
    /\ runs = 0 \/ Len(generated) = Len(MAJOR_ARCANA) + Len(minor_passes)
    /\ runs < MaxRuns
    /\ generated' = << >>
    /\ runs' = runs + 1
    /\ UNCHANGED <<drawVars, readingVars, out, cycleVars, calls, cls,
                   stepVars, twoVars, mainVars, bothVars, exVars, files>>

(* One pass of the loop over MAJOR_ARCANA.                                  *)
WriteMajor ==
    /\ runs > 0
    /\ Len(generated) < Len(MAJOR_ARCANA)
    /\ \E i \in {Len(generated) + 1} :
       \E card \in {MAJOR_ARCANA[i]} :
       \E filename \in {major_filename(i, card)} :
           /\ files' = write_file(files, filename,
                                  build_major_prompt(card, i))
           /\ generated' = Append(generated, <<filename, card.name>>)
    /\ UNCHANGED <<drawVars, readingVars, out, cycleVars, calls, cls,
                   stepVars, twoVars, mainVars, bothVars, exVars, runs>>

(* One pass of the loops over suits and over the cards of a suit.           *)
WriteMinor ==
    /\ runs > 0
    /\ Len(generated) >= Len(MAJOR_ARCANA)
    /\ Len(generated) < Len(MAJOR_ARCANA) + Len(minor_passes)
    /\ \E pass \in {minor_passes[Len(generated) - Len(MAJOR_ARCANA) + 1]} :
       \E filename \in {minor_filename(pass.suit_prefix, pass.card)} :
           /\ files' = write_file(files, filename,
                                  build_minor_prompt(pass.card))
           /\ generated' = Append(generated, <<filename, pass.card.name>>)
    /\ UNCHANGED <<drawVars, readingVars, out, cycleVars, calls, cls,
                   stepVars, twoVars, mainVars, bothVars, exVars, runs>>

(* result = examples_to_visuals(examples)                                  *)
ExamplesToVisuals ==
    /\ result = << >>
    /\ \E r \in {examples_to_visuals(examples)} :
           visuals' = r.visuals /\ result' = <<r.ret>>
    /\ UNCHANGED <<drawVars, readingVars, out, cycleVars, calls, cls,
                   stepVars, twoVars, mainVars, bothVars, promptVars,
                   examples>>

(* The same request made of a SystemsTarot session and of a TonysTarot     *)
(* session, the generator giving both the same outcomes.                    *)
BothDraw(n, s1, s2) ==
    /\ \E r \in {draw(session, n, s1, s2)} :
           Consumed(r, s1, s2) /\ DrawCall(r, n)
    /\ \E t \in {tonys_draw(tonys, n, s1, s2)} :
           tonys' = t.self /\ tonysDrawn' = t.ret
    /\ NoReading
    /\ UNCHANGED <<cycleVars, calls, cls, stepVars, twoVars, mainVars,
                   promptVars, exVars>>

(***************************************************************************)
Running(c) == pc[c] \notin {"idle", "done"}

(* Entry to draw(n) and line 1355: if n <= 0: return [].                    *)
Enter(c, n) ==
    /\ arg_n' = [arg_n EXCEPT ![c] = n]
    /\ pc' = [pc EXCEPT ![c] = IF EmptyRequest(n) THEN "done"
                                                  ELSE "length_check"]
    /\ ret' = [ret EXCEPT ![c] = << >>]
    /\ loc_drawn' = [loc_drawn EXCEPT ![c] = << >>]
    /\ loc_rest' = [loc_rest EXCEPT ![c] = << >>]
    /\ ret_to' = [ret_to EXCEPT ![c] = "done"]
    /\ resets' = [resets EXCEPT ![c] = 0]
    /\ mine' = [mine EXCEPT ![c] = FALSE]
    /\ slicedWith' = [slicedWith EXCEPT ![c] = {}]
    /\ sliced' = sliced \ {c}
    /\ interleaved' = (interleaved \/ \E o \in Callers \ {c} : Running(o))
    /\ started' = started + 1
    /\ deckBefore' = deck
    /\ UNCHANGED <<full_deck, deck, lastOp, lastN, drawn, atRemoval, left,
                   preReset, lowReset, prevLow, epoch, epochPrior,
                   epochBefore>>
    /\ UNCHANGED <<cycleVars, calls, cls, readingVars, twoVars,
                   out, toolVars>>

(* The first call of a caller.                                              *)
StartCall(c, n) == pc[c] = "idle" /\ Enter(c, n)

(* A further call of a caller whose call has returned.                      *)
CallAgain(c, n) == pc[c] = "done" /\ started < MaxSoloCalls /\ Enter(c, n)

(* The statement after the reset of line 1359, looping back to the test.    *)
after_pre_reset_recheck == "length_check"

(* The statement after the reset of line 1359: line 1361.                   *)
after_pre_reset == "read_drawn"

(* Line 1358: if n > len(self.deck)                                         *)
LengthCheck(c) ==
    /\ pc[c] = "length_check"
    /\ IF NeedsReset(arg_n[c], deck)
       THEN /\ pc' = [pc EXCEPT ![c] = "reset_copy"]
            /\ ret_to' = [ret_to EXCEPT ![c] = after_pre_reset]
       ELSE /\ pc' = [pc EXCEPT ![c] = "read_drawn"]
            /\ UNCHANGED ret_to
    /\ UNCHANGED <<arg_n, loc_drawn, loc_rest, ret, resets, mine, sliced,
                   slicedWith, interleaved, started>>
    /\ UNCHANGED <<drawVars, cycleVars, calls, cls, readingVars, twoVars,
                   out, toolVars>>

(* Line 1351: self.deck = list(self.full_deck)                              *)
ResetCopy(c) ==
    /\ pc[c] = "reset_copy"
    /\ deck' = list(full_deck)
    /\ mine' = [o \in Callers |-> o = c]
    /\ sliced' = {}
    /\ pc' = [pc EXCEPT ![c] = "reset_shuffle"]
    /\ UNCHANGED <<arg_n, loc_drawn, loc_rest, ret_to, ret, resets,
                   slicedWith, interleaved, started>>
    /\ UNCHANGED <<full_deck, lastOp, lastN, drawn, deckBefore, atRemoval,
                   left, preReset, lowReset, prevLow, epoch, epochPrior,
                   epochBefore>>
    /\ UNCHANGED <<cycleVars, calls, cls, readingVars, twoVars,
                   out, toolVars>>

(* Line 1352: random.shuffle(self.deck), in place on the list the caller   *)
(* created; it is self.deck unless another caller has assigned self.deck.  *)
ResetShuffle(c, seed) ==
    /\ pc[c] = "reset_shuffle"
    /\ IF mine[c]
       THEN deck' = shuffle(deck, seed) /\ sliced' = {}
       ELSE seed = 0 /\ UNCHANGED <<deck, sliced>>
    /\ resets' = [resets EXCEPT ![c] = Min(resets[c] + 1, MaxResets)]
    /\ mine' = [mine EXCEPT ![c] = FALSE]
    /\ pc' = [pc EXCEPT ![c] = ret_to[c]]
    /\ ret' = [ret EXCEPT ![c] = IF ret_to[c] = "done" THEN loc_drawn[c]
                                                        ELSE ret[c]]
    /\ UNCHANGED <<arg_n, loc_drawn, loc_rest, ret_to, slicedWith,
                   interleaved, started>>
    /\ UNCHANGED <<full_deck, lastOp, lastN, drawn, deckBefore, atRemoval,
                   left, preReset, lowReset, prevLow, epoch, epochPrior,
                   epochBefore>>
    /\ UNCHANGED <<cycleVars, calls, cls, readingVars, twoVars,
                   out, toolVars>>

(* Line 1361: drawn = self.deck[:n]                                         *)
ReadDrawn(c) ==
    /\ pc[c] = "read_drawn"
    /\ loc_drawn' = [loc_drawn EXCEPT ![c] = PySliceTo(deck, arg_n[c])]
    /\ slicedWith' = [slicedWith EXCEPT ![c] = sliced]
    /\ sliced' = sliced \cup {c}
    /\ pc' = [pc EXCEPT ![c] = "read_rest"]
    /\ UNCHANGED <<arg_n, loc_rest, ret_to, ret, resets, mine, interleaved,
                   started>>
    /\ UNCHANGED <<drawVars, cycleVars, calls, cls, readingVars, twoVars,
                   out, toolVars>>

(* Line 1362, right-hand side: self.deck[n:]                                *)
ReadRest(c) ==
    /\ pc[c] = "read_rest"
    /\ loc_rest' = [loc_rest EXCEPT ![c] = PySliceFrom(deck, arg_n[c])]
    /\ pc' = [pc EXCEPT ![c] = "write_rest"]
    /\ UNCHANGED <<arg_n, loc_drawn, ret_to, ret, resets, mine, sliced,
                   slicedWith, interleaved, started>>
    /\ UNCHANGED <<drawVars, cycleVars, calls, cls, readingVars, twoVars,
                   out, toolVars>>

(* Line 1362, the assignment: self.deck = ...                               *)
WriteRest(c) ==
    /\ pc[c] = "write_rest"
    /\ deck' = loc_rest[c]
    /\ loc_rest' = [loc_rest EXCEPT ![c] = << >>]
    /\ mine' = [o \in Callers |-> FALSE]
    /\ pc' = [pc EXCEPT ![c] = "low_check"]
    /\ UNCHANGED <<arg_n, loc_drawn, ret_to, ret, resets, sliced,
                   slicedWith, interleaved, started>>
    /\ UNCHANGED <<full_deck, lastOp, lastN, drawn, deckBefore, atRemoval,
                   left, preReset, lowReset, prevLow, epoch, epochPrior,
                   epochBefore>>
    /\ UNCHANGED <<cycleVars, calls, cls, readingVars, twoVars,
                   out, toolVars>>

(* Line 1364: if len(self.deck) < 10, and line 1367: return drawn           *)
LowCheck(c) ==
    /\ pc[c] = "low_check"
    /\ IF RunningLow(deck)
       THEN /\ pc' = [pc EXCEPT ![c] = "reset_copy"]
            /\ ret_to' = [ret_to EXCEPT ![c] = "done"]
            /\ UNCHANGED ret
       ELSE /\ pc' = [pc EXCEPT ![c] = "done"]
            /\ ret' = [ret EXCEPT ![c] = loc_drawn[c]]
            /\ UNCHANGED ret_to
    /\ UNCHANGED <<arg_n, loc_drawn, loc_rest, resets, mine, sliced,
                   slicedWith, interleaved, started>>
    /\ UNCHANGED <<drawVars, cycleVars, calls, cls, readingVars, twoVars,
                   out, toolVars>>

(* The next statement of the running call of caller c.                      *)
Step(c) ==
    \/ LengthCheck(c)
    \/ ResetCopy(c)
    \/ \E seed \in Seeds : ResetShuffle(c, seed)
    \/ ReadDrawn(c)
    \/ ReadRest(c)
    \/ WriteRest(c)
    \/ LowCheck(c)

(***************************************************************************)
(* Two sessions.  An attribute of a session refers to a list object; a     *)
(* call reads the lists of its session and binds self.deck to the list it  *)
(* creates.                                                                 *)
(***************************************************************************)
Referenced(ss) == {ss[s].full_deck : s \in Sessions} \cup
                  {ss[s].deck : s \in Sessions}

(* One list object for the draw orders of all sessions: that of the first. *)
new_list_shared(ss) == ss[1].deck

(* The identity of a list created by list(...) or by a slice: one no       *)
(* session refers to.                                                       *)
new_list(ss) == CHOOSE id \in ListIds \ Referenced(ss) :
                    \A o \in ListIds \ Referenced(ss) : id <= o

(* The lists no session refers to any more are gone.                        *)
collect(h, ss) ==
    [id \in ListIds |-> IF id \in Referenced(ss) THEN h[id] ELSE << >>]

(* self, as the methods of session s see it.                                *)
self_of(h, ss, s) ==
    [full_deck |-> h[ss[s].full_deck], deck |-> h[ss[s].deck]]

(* The same lists under other identities: a list is named by the first of *)
(* the attributes that refer to it, the catalogs before the draw orders.   *)
(* Two attributes refer to one list after the renaming exactly when they   *)
(* did before.                                                              *)
renamed(h, ss) ==
    LET attrs == <<ss[1].full_deck, ss[2].full_deck, ss[1].deck, ss[2].deck>>
        name(id) == CHOOSE k \in DOMAIN attrs :
                        /\ attrs[k] = id
                        /\ \A j \in 1 .. (k - 1) : attrs[j] # id
    IN  [heap |-> [k \in ListIds |->
                      IF k \in DOMAIN attrs /\ name(attrs[k]) = k
                      THEN h[attrs[k]] ELSE << >>],
         sess |-> [s \in Sessions |->
                      [full_deck |-> name(ss[s].full_deck),
                       deck |-> name(ss[s].deck)]]]

(* self.deck = d, d a list the call has created.                            *)
assign_deck(h, ss, s, d) ==
    LET id  == new_list(ss)
        ss1 == [ss EXCEPT ![s].deck = id]
    IN  renamed(collect([h EXCEPT ![id] = d], ss1), ss1)

(* The draw order of session s.                                             *)
deck_of(s) == heap[sess[s].deck]

(* What the last call on session s did, and what it left the others.        *)
TwoCall(s, kind, r) ==
    /\ twoOps < MaxTwoOps
    /\ \E a \in {IF r.self.deck = deck_of(s) /\ ~r.pre /\ ~r.low
                    /\ r.ret = << >> /\ kind = "draw"
                  THEN [heap |-> heap, sess |-> sess]
                  ELSE assign_deck(heap, sess, s, r.self.deck)} :
           heap' = a.heap /\ sess' = a.sess
    /\ s_drawn' = [s_drawn EXCEPT ![s] = r.ret]
    /\ s_epochPrior' = [s_epochPrior EXCEPT
                           ![s] = IF r.pre THEN {} ELSE s_epoch[s]]
    /\ s_epoch' = [s_epoch EXCEPT
                      ![s] = IF r.low THEN {}
                             ELSE s_epochPrior'[s] \cup Range(r.ret)]
    /\ lastOn' = s
    /\ lastKind' = kind
    /\ othersBefore' = [t \in Sessions \ {s} |-> deck_of(t)]
    /\ twoOps' = twoOps + 1
    /\ UNCHANGED <<drawVars, cycleVars, calls, cls, readingVars, stepVars,
                   out, toolVars>>

(* draw(n) on session s                                                     *)
DrawOn(s, n, s1, s2) ==
    \E r \in {draw(self_of(heap, sess, s), n, s1, s2)} :
        Consumed(r, s1, s2) /\ TwoCall(s, "draw", r)

(* reset_and_shuffle() on session s                                         *)
ResetOn(s, seed) ==
    \E r \in {[self |-> reset_and_shuffle(self_of(heap, sess, s), seed),
               ret |-> << >>, pre |-> FALSE, low |-> TRUE]} :
        TwoCall(s, "reset_and_shuffle", r)

Next ==
    \/ \E n \in Requests, s1, s2 \in Seeds : Draw(n, s1, s2)
    \/ \E seed \in Seeds : ResetAndShuffle(seed)

Spec == Init /\ [][Next]_vars

NextCycle == \E n \in Requests, s1, s2 \in Seeds : DrawTracked(n, s1, s2)

SpecCycle == Init /\ [][NextCycle]_vars

NextRepeat == \E s1, s2 \in Seeds : DrawThree(s1, s2)

SpecRepeat == Init /\ [][NextRepeat]_vars

InitReading == \E c \in Classes : InitOf(c)

NextReading ==
    \E spread_type \in SpreadTypes, s1, s2 \in Seeds :
        Reading(spread_type, s1, s2)

SpecReading == InitReading /\ [][NextReading]_vars

(* A session of either class used through all its methods.                 *)
NextSession ==
    \/ \E spread_type \in SpreadTypes, s1, s2 \in Seeds :
           Reading(spread_type, s1, s2)
    \/ \E n \in SessionRequests, s1, s2 \in Seeds : Draw(n, s1, s2)
    \/ \E seed \in Seeds : ResetAndShuffle(seed)
    \/ ListAllCards
    \/ \E card \in DisplayCards : Display(card)

SpecSession == InitReading /\ [][NextSession]_vars

(* A session of each class, constructed with the same outcome of the      *)
(* generator.                                                               *)
InitBoth ==
    /\ InitOne("SystemsTarot")
    /\ NoSessions /\ NoMain /\ NoPrompts
    /\ \E seed \in Seeds :
           deck = init(seed).deck /\ tonys = tonys_init(seed)
    /\ tonysDrawn = << >>

NextBoth == \E n \in BothRequests, s1, s2 \in Seeds : BothDraw(n, s1, s2)

SpecBoth == InitBoth /\ [][NextBoth]_vars

(* examples_to_visuals called on a list of examples.                        *)
InitExamples ==
    /\ InitOne("SystemsTarot")
    /\ NoSessions /\ NoMain /\ NoTonys
    /\ files = << >> /\ generated = << >> /\ runs = 0
    /\ examples \in UNION {[1 .. m -> ExampleStrings] : m \in 0 .. MaxExamples}
    /\ visuals = << >>
    /\ result = << >>

NextExamples == ExamplesToVisuals

SpecExamples == InitExamples /\ [][NextExamples]_vars

(* generate_prompts run as a script, once or again.                        *)
NextPrompts == GenerateAll \/ WriteMajor \/ WriteMinor

SpecPrompts == Init /\ [][NextPrompts]_vars

(* main of either module: tarot = c(), then the loop.                      *)
InitMain ==
    /\ \E c \in Classes : InitOne(c)
    /\ NoSessions /\ NoTonys /\ NoPrompts
    /\ out = << >>
    /\ mainPc = "menu"
    /\ choice = << >>
    /\ loops = 0

NextMain ==
    \/ \E line \in Lines, s1, s2 \in Seeds : EnterChoice(line, s1, s2)
    \/ PressEnter
    \/ EndOfInput

SpecMain == InitMain /\ [][NextMain]_vars

(* One caller, one call after the other; a running call goes on.            *)
NextSolo ==
    \/ \E n \in SoloRequests : StartCall(1, n)
    \/ \E n \in SoloRequests : CallAgain(1, n)
    \/ Step(1)

SpecSolo == Init /\ [][NextSolo]_vars /\ WF_vars(Step(1))

(* Two unsynchronized callers, one call each, their statements interleaved *)
(* in any order.                                                            *)
NextConc ==
    \/ \E c \in Callers, n \in ConcRequests : StartCall(c, n)
    \/ \E c \in Callers : Step(c)

SpecConc == Init /\ [][NextConc]_vars

(* The state after a = SystemsTarot(); b = SystemsTarot().                  *)
InitTwo ==
    /\ InitOne("SystemsTarot")
    /\ NoMain /\ NoTonys /\ NoPrompts
    /\ \E seed \in Seeds :
        \E a \in {assign_deck([id \in ListIds |->
                                  IF id \in {1, 2} THEN refs(FullDeck)
                                                   ELSE << >>],
                              [s \in Sessions |->
                                  [full_deck |-> s, deck |-> s]],
                              1, deck)} :
        \E c \in {assign_deck(a.heap, a.sess, 2, init(seed).deck)} :
            /\ heap = c.heap
            /\ sess = c.sess
    /\ s_drawn = [s \in Sessions |-> << >>]
    /\ s_epochPrior = [s \in Sessions |-> {}]
    /\ s_epoch = [s \in Sessions |-> {}]
    /\ lastOn = 0
    /\ lastKind = ""
    /\ othersBefore = << >>
    /\ twoOps = 0

(* Calls on the two sessions, in any order.                                 *)
NextTwo ==
    \/ \E s \in Sessions, n \in TwoRequests, s1, s2 \in Seeds :
           DrawOn(s, n, s1, s2)
    \/ \E s \in Sessions, seed \in Seeds : ResetOn(s, seed)

SpecTwo == InitTwo /\ [][NextTwo]_vars

(***************************************************************************)
(* Properties.                                                              *)
(***************************************************************************)
(* d is a shuffle of the whole catalog: 78 cards, every card of the        *)
(* catalog, none twice.                                                     *)
IsFullShuffle(d) ==
    /\ Len(d) = 78
    /\ Cardinality(Catalog) = 78
    /\ Range(d) = Catalog

Distinct(s) == Cardinality(Range(s)) = Len(s)

(* C1: draw(n) with 0 <= n <= 78 returns exactly n cards, each a member of *)
(* the 78-card catalog, no card twice in the returned list.                 *)
C1_DrawReturnsNDistinctCards ==
    (lastOp = "draw" /\ 0 <= lastN /\ lastN <= 78) =>
        /\ Len(drawn) = lastN
        /\ Range(drawn) \subseteq Catalog
        /\ Cardinality(Catalog) = 78
        /\ Distinct(drawn)

(* A request for the whole catalog made on a partly dealt draw order.      *)
C1_Witness ==
    /\ lastOp = "draw"
    /\ lastN = 78
    /\ Len(deckBefore) < 78
    /\ Len(drawn) = 78

(* C2: two draw calls with no reset between their removals return no card  *)
(* in common: the cards a call returns are none of those already returned  *)
(* in the epoch its removal is made in.                                     *)
C2_NoRepeatWithinEpoch ==
    lastOp = "draw" => Range(drawn) \cap epochPrior = {}

(* A draw that continues an epoch in which cards were already returned.    *)
C2_Witness ==
    /\ lastOp = "draw"
    /\ ~preReset
    /\ epochPrior # {}
    /\ Len(drawn) >= 3

(* C3, as stated: with every request n <= 78, no card is returned a second *)
(* time until all 78 cards of the catalog have been returned once.          *)
C3_NoRepeatBeforeCatalogExhausted ==
    lastOp = "draw" => Range(drawn) \cap cyclePrior = {}

(* C3, amended: with every request n <= 78, a card is returned a second    *)
(* time before the catalog has been returned once only after a reset has   *)
(* run in that cycle.                                                       *)
C3_RepeatOnlyAfterReset ==
    (lastOp = "draw" /\ Range(drawn) \cap cyclePrior # {}) => cycleResetPrior

(* A card comes back after a reset while cards of the catalog have not     *)
(* been returned yet in the cycle.                                          *)
C3_Witness ==
    /\ lastOp = "draw"
    /\ Range(drawn) \cap cyclePrior # {}
    /\ cycleResetPrior
    /\ cyclePrior # Catalog
    /\ cyclePrior \cup Range(drawn) # Catalog

(* C4, as stated: after a draw whose removal left fewer than 10 cards, the *)
(* next draw(n), n >= 1, removes from a full shuffle of the catalog and     *)
(* leaves 78 - n cards.                                                     *)
C4_NextDrawLeavesCatalogMinusN ==
    (lastOp = "draw" /\ prevLow /\ lastN >= 1) =>
        /\ IsFullShuffle(atRemoval)
        /\ Len(deck) = 78 - lastN

(* C4, amended: after a draw whose removal left fewer than 10 cards, the   *)
(* next draw(n), n >= 1, removes from a full shuffle of the catalog and     *)
(* leaves 78 - n cards when n <= 68, 78 cards when n >= 69.                 *)
C4_NextDrawFromFullDeck ==
    (lastOp = "draw" /\ prevLow /\ lastN >= 1) =>
        /\ IsFullShuffle(atRemoval)
        /\ Len(deck) = IF lastN <= 68 THEN 78 - lastN ELSE 78

(* The draw after a low-water reset leaves 78 - n cards.                   *)
C4_Witness ==
    /\ lastOp = "draw"
    /\ prevLow
    /\ lastN >= 3
    /\ Len(deck) = 78 - lastN

(* C5: between operations the draw order never holds fewer than 10 cards   *)
(* nor more than 78.                                                        *)
C5_RemainingWithinBounds ==
    10 <= Len(deck) /\ Len(deck) <= 78

(* A draw has returned and left exactly 10 cards.                          *)
C5_Witness ==
    /\ lastOp = "draw"
    /\ lastN >= 1
    /\ Len(deck) = 10

(* C6: draw(0) returns the empty list and leaves the draw order as it was. *)
C6_DrawZeroChangesNothing ==
    (lastOp = "draw" /\ lastN = 0) =>
        /\ drawn = << >>
        /\ deck = deckBefore

(* draw(0) on a partly dealt draw order.                                    *)
C6_Witness ==
    /\ lastOp = "draw"
    /\ lastN = 0
    /\ Len(deckBefore) < 78
    /\ deck = deckBefore

(* C7: draw(n), n >= 1, resets before the removal exactly when the draw    *)
(* order holds fewer than n cards; the cards returned are then the first   *)
(* cards of the fresh full shuffle; otherwise the removal is made from the *)
(* draw order as the call found it.                                         *)
C7_ResetBeforeRemoval ==
    (lastOp = "draw" /\ lastN >= 1) =>
        /\ preReset <=> (Len(deckBefore) < lastN)
        /\ preReset =>
              /\ IsFullShuffle(atRemoval)
              /\ Len(drawn) = Min(lastN, 78)
              /\ \A i \in 1 .. Len(drawn) : drawn[i] = atRemoval[i]
        /\ ~preReset => atRemoval = deckBefore

(* A request larger than what is left, served from the fresh shuffle.      *)
C7_Witness ==
    /\ lastOp = "draw"
    /\ preReset
    /\ 1 <= lastN /\ lastN <= 78
    /\ Len(deckBefore) < lastN
    /\ Len(deckBefore) >= 10
    /\ Len(drawn) = lastN

(* C8: draw(n), 1 <= n <= 78, returns the first n cards of the draw order  *)
(* in order; without a low-water reset the new draw order is the old one   *)
(* without its first n cards, the rest in order.                            *)
C8_FirstNCardsInOrder ==
    (lastOp = "draw" /\ 1 <= lastN /\ lastN <= 78) =>
        /\ Len(drawn) = lastN
        /\ \A i \in 1 .. lastN : drawn[i] = atRemoval[i]
        /\ ~lowReset =>
              /\ Len(deck) = Len(atRemoval) - lastN
              /\ \A i \in 1 .. Len(deck) : deck[i] = atRemoval[lastN + i]

(* A draw of several cards that leaves the rest of the order in place.     *)
C8_Witness ==
    /\ lastOp = "draw"
    /\ lastN >= 3
    /\ ~lowReset
    /\ Len(drawn) = lastN
    /\ Len(deck) = Len(atRemoval) - lastN

(* C9: the reset after the removal runs exactly when fewer than 10 cards   *)
(* are left: then the draw order becomes a full shuffle of the catalog;    *)
(* with 10 or more left, the draw order stays what the removal left.       *)
C9_LowWaterExactlyBelowTen ==
    (lastOp = "draw" /\ lastN >= 1) =>
        /\ Len(left) < 10 => (lowReset /\ IsFullShuffle(deck))
        /\ Len(left) >= 10 => (~lowReset /\ deck = left)

(* A removal that left 9 cards was followed by a reset, and the next       *)
(* removal, leaving exactly 10, was not.                                    *)
C9_Witness ==
    /\ lastOp = "draw"
    /\ prevLow
    /\ Len(left) = 10
    /\ deck = left

(* C10: right after every reset_and_shuffle the draw order is a            *)
(* permutation of the catalog; in every state the draw order holds cards   *)
(* of the catalog only, none twice.                                         *)
C10_DrawOrderIsPermutation ==
    /\ lastOp \in {"init", "reset_and_shuffle"} => IsFullShuffle(deck)
    /\ (lastOp = "draw" /\ lowReset) => IsFullShuffle(deck)
    /\ (lastOp = "draw" /\ preReset) => IsFullShuffle(atRemoval)
    /\ Range(deck) \subseteq Catalog
    /\ Distinct(deck)

(* A reset of a partly dealt draw order that changed the catalog's order.  *)
C10_Witness ==
    /\ lastOp = "reset_and_shuffle"
    /\ Len(deckBefore) < 78
    /\ Len(deck) = 78
    /\ deck # full_deck

(* C11: draw(n) with n > 78 resets the draw order and returns the cards    *)
(* that exist, 78 of them, never n.                                         *)
C11_OversizedDrawReturnsCatalog ==
    (lastOp = "draw" /\ lastN > 78) =>
        /\ preReset
        /\ IsFullShuffle(atRemoval)
        /\ Len(drawn) = 78
        /\ Len(drawn) < lastN
        /\ drawn = atRemoval

(* draw(79) has returned, on a partly dealt draw order.                    *)
C11_Witness ==
    /\ lastOp = "draw"
    /\ lastN = 79
    /\ Len(deckBefore) < 78
    /\ Len(drawn) = 78

(* C13: draw(n) with n < 0 does what draw(0) does: it returns the empty    *)
(* list, resets nothing and leaves the draw order as it was.                *)
C13_NegativeDrawChangesNothing ==
    (lastOp = "draw" /\ lastN < 0) =>
        /\ drawn = << >>
        /\ deck = deckBefore
        /\ ~preReset
        /\ ~lowReset

(* draw(-1) on a partly dealt draw order.                                   *)
C13_Witness ==
    /\ lastOp = "draw"
    /\ lastN = -1
    /\ Len(deckBefore) < 78
    /\ deck = deckBefore

(* The Card objects a list of references holds, in its order.               *)
CardsOf(x) == [i \in 1 .. Len(x) |-> Card(x[i])]

(* C17: draw and reset_and_shuffle change the draw order only: the catalog *)
(* the session holds is the list built at construction, the Major Arcana   *)
(* first, every card with the fields it was built with.                     *)
C17_CatalogUnchanged ==
    /\ full_deck = refs(FullDeck)
    /\ CardsOf(full_deck) = FullDeck
    /\ SubSeq(CardsOf(full_deck), 1, Len(MAJOR_ARCANA)) = MAJOR_ARCANA

(* A draw that reset the draw order before and after its removal.           *)
C17_Witness ==
    /\ lastOp = "draw"
    /\ preReset
    /\ lowReset
    /\ deck # full_deck
    /\ full_deck = refs(FullDeck)

Suits == {"Networks", "Events", "Agents", "Resources"}

(* C18: the catalog of a session has 78 cards: 22 of type Major without a  *)
(* rank and, for each of the four suits, 14 cards with the ranks 1..14     *)
(* once each; the 78 names differ pairwise.                                 *)
C18_CatalogComposition ==
    LET cards  == CardsOf(full_deck)
        OfType(t) == {i \in DOMAIN cards : cards[i].card_type = t}
    IN  /\ Len(cards) = 78
        /\ Cardinality(OfType("Major")) = 22
        /\ \A i \in OfType("Major") : cards[i].number = NoRank
        /\ \A t \in Suits :
              /\ Cardinality(OfType(t)) = 14
              /\ \A r \in 1 .. 14 :
                    Cardinality({i \in OfType(t) : cards[i].number = r}) = 1
        /\ Cardinality({cards[i].name : i \in DOMAIN cards}) = 78

(* The session just constructed holds the last card of the last suit.      *)
C18_Witness ==
    /\ lastOp = "init"
    /\ Len(full_deck) = 78
    /\ Card(full_deck[78]).name = "King of Resources"
    /\ Card(full_deck[78]).number = 14
    /\ Card(full_deck[1]).card_type = "Major"

(* C19: a reset drops the cards of the old draw order that were not dealt: *)
(* 1 to 9 of them at the reset after a removal, 10 or more at the reset    *)
(* before one; none of them was returned in the epoch that ends, and the   *)
(* new epoch starts from a shuffle of all 78 cards.                         *)
C19_ResetDropsUndealtCards ==
    /\ (lastOp = "draw" /\ lowReset /\ Len(left) > 0) =>
          /\ Len(left) <= 9
          /\ Range(left) \cap (epochPrior \cup Range(drawn)) = {}
          /\ IsFullShuffle(deck)
    /\ (lastOp = "draw" /\ preReset) =>
          /\ Len(deckBefore) >= 10
          /\ Range(deckBefore) \cap epochBefore = {}
          /\ IsFullShuffle(atRemoval)
          /\ epochPrior = {}
    /\ lastOp = "reset_and_shuffle" =>
          /\ Range(deckBefore) \cap epochBefore = {}
          /\ IsFullShuffle(deck)

(* Nine cards of an epoch in which cards had been returned are dropped.    *)
C19_Witness ==
    /\ lastOp = "draw"
    /\ lowReset
    /\ Len(left) = 9
    /\ epochPrior # {}
    /\ Len(deck) = 78


C20_Size ==
    [s \in {"single", "three_card", "decision", "system", "archipelago",
            "threat", "batcave"} |->
        CASE s = "single" -> 1
          [] s = "three_card" -> 3
          [] s = "decision" -> 4
          [] s \in {"system", "archipelago"} -> 5
          [] s \in {"threat", "batcave"} -> 6]

(* The named spreads of the class of the session.                           *)
C20_Named ==
    {"single", "three_card", "decision"} \cup
        (IF cls = "SystemsTarot" THEN {"system", "threat"}
                                 ELSE {"archipelago", "batcave"})

(* C20: a reading of a named spread makes exactly one draw, of the fixed   *)
(* size of the spread, and the card shown under the i-th label is the i-th *)
(* card that draw returned; the draw order changes by that draw only.      *)
C20_ReadingDrawsOnce ==
    (spread \in C20_Named) =>
        /\ readingDraws = 1
        /\ lastOp = "draw"
        /\ lastN = C20_Size[spread]
        /\ Len(drawn) = C20_Size[spread]
        /\ shown = drawn
        /\ ~readingError
        /\ atRemoval = deckBefore
        /\ drawn = SubSeq(deckBefore, 1, C20_Size[spread])
        /\ left = SubSeq(deckBefore, C20_Size[spread] + 1, Len(deckBefore))
        /\ (deck = left \/ (lowReset /\ IsFullShuffle(deck)))

(* A decision reading on a partly dealt draw order of a TonysTarot session *)
(* has shown its four cards.                                                *)
C20_Witness ==
    /\ cls = "TonysTarot"
    /\ spread = "decision"
    /\ readingDraws = 1
    /\ Len(deckBefore) < 78
    /\ Len(shown) = 4
    /\ shown = drawn

(* C12, as stated: a call draw(n) with n > 78 resets and reshuffles for    *)
(* ever and never returns.                                                  *)
C12_OversizedDrawNeverReturns ==
    \A c \in Callers : ~(pc[c] = "done" /\ arg_n[c] > 78)

(* C12, amended: a call draw(n) with n > 78 resets once before the         *)
(* removal, and returns: it returns the 78 cards of that shuffle after one *)
(* more reset, the one of the low-water test.                               *)
C12_OversizedDrawReturns ==
    \A c \in {1} :
        (Running(c) /\ arg_n[c] > 78) ~>
            (/\ pc[c] = "done"
             /\ arg_n[c] > 78
             /\ resets[c] = 2
             /\ Len(ret[c]) = 78
             /\ IsFullShuffle(ret[c]))

(* draw(79) has returned its 78 cards on a partly dealt draw order.        *)
C12_Witness ==
    /\ pc[1] = "done"
    /\ arg_n[1] = 79
    /\ started > 1
    /\ resets[1] = 2
    /\ Len(ret[1]) = 78

(* The two calls read their cards off the same shuffle: no reset came      *)
(* between the two reads of self.deck[:n].                                  *)
C14_SameShuffle == 1 \in slicedWith[2] \/ 2 \in slicedWith[1]

(* The two calls have returned cards of the same shuffle, some card twice. *)
C14_Overlap ==
    /\ pc[1] = "done"
    /\ pc[2] = "done"
    /\ C14_SameShuffle
    /\ Range(ret[1]) \cap Range(ret[2]) # {}

(* C14: two calls on one session return overlapping cards of the same      *)
(* shuffle only when their statements interleave; run one after the other  *)
(* they never do.  With the interleaving the overlap is reached            *)
(* (C14_Witness).                                                           *)
C14_OverlapOnlyWhenInterleaved == C14_Overlap => interleaved

(* Two interleaved calls draw(3) have returned the same three cards of the *)
(* same shuffle.                                                            *)
C14_Witness ==
    /\ C14_Overlap
    /\ interleaved
    /\ arg_n[1] = 3
    /\ arg_n[2] = 3
    /\ ret[1] = ret[2]
    /\ Len(ret[1]) = 3

(* C15: two sessions constructed independently own independent draw        *)
(* orders: a draw or reset_and_shuffle on one leaves the draw order of the *)
(* other as it was, and in any interleaving of calls on the two a draw on  *)
(* a session returns none of the cards that session has returned since its *)
(* last reset.                                                              *)
C15_SessionsIndependent ==
    /\ sess[1].deck # sess[2].deck
    /\ lastOn # 0 =>
           /\ \A t \in Sessions \ {lastOn} : deck_of(t) = othersBefore[t]
           /\ lastKind = "draw" =>
                  Range(s_drawn[lastOn]) \cap s_epochPrior[lastOn] = {}

(* A draw on the second session continues its epoch after a draw on the    *)
(* first; the two draw orders differ.                                       *)
C15_Witness ==
    /\ lastOn = 2
    /\ lastKind = "draw"
    /\ s_epochPrior[2] # {}
    /\ s_epoch[1] # {}
    /\ Len(s_drawn[2]) = 10
    /\ Len(deck_of(1)) = 68
    /\ Len(deck_of(2)) = 58

(* C23: a draw of at most 10 cards never takes the reset before the        *)
(* removal: the draw order it finds holds 10 cards or more.  The resets of *)
(* the draws of the spreads (n <= 6) are those of the low-water test.      *)
C23_SmallDrawNeverResetsFirst ==
    (lastOp = "draw" /\ lastN <= 10) =>
        /\ ~preReset
        /\ Len(deckBefore) >= lastN
        /\ atRemoval = deckBefore

(* draw(10) on a draw order of exactly 10 cards.                            *)
C23_Witness ==
    /\ lastOp = "draw"
    /\ lastN = 10
    /\ Len(deckBefore) = 10
    /\ ~preReset
    /\ lowReset

(* C24: between calls, the cards returned since the last reset and the    *)
(* cards of the draw order are disjoint and make up the catalog of 78.     *)
C24_EpochConservation ==
    /\ Range(deck) \cap epoch = {}
    /\ Range(deck) \cup epoch = Catalog
    /\ Len(deck) + Cardinality(epoch) = 78

(* A second draw of an epoch has returned, without reset.                   *)
C24_Witness ==
    /\ lastOp = "draw"
    /\ ~preReset
    /\ ~lowReset
    /\ epochPrior # {}
    /\ Len(drawn) >= 3
    /\ Cardinality(epoch) > Len(drawn)

(* C25: a draw of n >= 1 cards that does not end with the low-water reset  *)
(* leaves none of the cards it returns in the draw order; one that does    *)
(* leaves all of them in the new draw order.                                *)
C25_ReturnedCardsAndDeck ==
    (lastOp = "draw" /\ lastN >= 1) =>
        /\ ~lowReset => Range(drawn) \cap Range(deck) = {}
        /\ lowReset => Range(drawn) \subseteq Range(deck)

(* A draw ended with the low-water reset and a card it returned is on top  *)
(* of the new draw order: the next draw returns it.                         *)
C25_Witness ==
    /\ lastOp = "draw"
    /\ lastN >= 1
    /\ lowReset
    /\ deck[1] \in Range(drawn)

(* C30: a call draw(n) returns, after two shuffles at most; it makes two,  *)
(* one before and one after the removal, exactly when n exceeds the number *)
(* of cards it finds and min(n, 78) > 68, so that fewer than 10 cards of   *)
(* the fresh draw order are left.                                           *)
C30_AtMostTwoShuffles ==
    /\ [](resets[1] <= 2)
    /\ Running(1) ~> (pc[1] = "done")
    /\ [](pc[1] = "done" =>
            (resets[1] = 2 <=>
                (arg_n[1] > Len(deckBefore) /\ Min(arg_n[1], 78) > 68)))

(* draw(68) on 58 cards has returned after the one shuffle before its      *)
(* removal.                                                                 *)
C30_Witness ==
    /\ pc[1] = "done"
    /\ arg_n[1] = 68
    /\ Len(deckBefore) = 58
    /\ resets[1] = 1
    /\ Len(deck) = 10

(* draw(69) on 68 cards has returned after two shuffles.                    *)
C30_WitnessTwo ==
    /\ pc[1] = "done"
    /\ arg_n[1] = 69
    /\ Len(deckBefore) = 68
    /\ resets[1] = 2

(* The number of cards shown by a named spread.                             *)
C21_Labels ==
    [s \in C20_Named |->
        CASE s = "single" -> 1
          [] s = "three_card" -> 3
          [] s = "decision" -> 4
          [] s \in {"system", "archipelago"} -> 5
          [] s \in {"threat", "batcave"} -> 6]

(* C21: a reading of a known spread of k cards, in whatever state the      *)
(* session is, gets exactly k cards from its draw(k): no access cards[0]   *)
(* .. cards[k-1] is out of range.                                           *)
C21_ReadingIndexesInRange ==
    (spread \in C20_Named) =>
        /\ ~readingError
        /\ Len(drawn) = C21_Labels[spread]
        /\ Len(shown) = C21_Labels[spread]
        /\ Len(atRemoval) >= C21_Labels[spread]

(* A threat reading on a draw order of exactly ten cards.                   *)
C21_Witness ==
    /\ spread \in {"threat", "batcave"}
    /\ spread \in C20_Named
    /\ Len(deckBefore) = 10
    /\ Len(shown) = 6
    /\ ~readingError

(* C22: list_all_cards, Card.display and a reading of a spread_type that   *)
(* is none of the known names leave the draw order and the catalog as they *)
(* are; the reading draws no card and fails with no error.                 *)
C22_OnlyDrawAndResetMutate ==
    /\ lastOp \in {"list_all_cards", "display"} =>
           deck = deckBefore /\ full_deck = refs(FullDeck)
    /\ (spread # "" /\ spread \notin C20_Named) =>
           /\ lastOp = "reading"
           /\ deck = deckBefore
           /\ full_deck = refs(FullDeck)
           /\ readingDraws = 0
           /\ shown = << >>
           /\ ~readingError

(* A reading of an unknown spread on a partly dealt draw order.             *)
C22_Witness ==
    /\ spread = "celtic_cross"
    /\ lastOp = "reading"
    /\ Len(deck) < 78
    /\ deck = deckBefore

(* list_all_cards on a partly dealt draw order.                             *)
C22_WitnessList ==
    /\ lastOp = "list_all_cards"
    /\ Len(deck) < 78
    /\ deck = deckBefore

(* C26: SystemsTarot.draw and TonysTarot.draw are the same state machine:  *)
(* given the same requests and the same permutations at each reshuffle,    *)
(* the two sessions return the same positions of their catalogs and keep   *)
(* the same number of cards.                                                *)
C26_SameStateMachine ==
    /\ tonysDrawn = drawn
    /\ Len(tonys.deck) = Len(deck)
    /\ Len(tonys.full_deck) = Len(full_deck)

(* Both sessions have answered a request that reshuffled before and after  *)
(* the removal.                                                             *)
C26_Witness ==
    /\ lastOp = "draw" /\ preReset /\ lowReset
    /\ Len(drawn) = 69 /\ tonysDrawn = drawn
    /\ Len(tonys.deck) = 78

(* The strings of examples that hold a colon, by their positions.           *)
C29_WithColon == {i \in DOMAIN examples : ":" \in Range(examples[i])}

(* The j-th position of C29_WithColon, in the order of examples.            *)
C29_Nth(j) ==
    CHOOSE i \in C29_WithColon :
        Cardinality({m \in C29_WithColon : m < i}) = j - 1

(* The text of e after its first colon, without the whitespace at its two  *)
(* ends, in lower case.                                                     *)
C29_Snippet(e) ==
    LET p     == CHOOSE i \in DOMAIN e :
                     e[i] = ":" /\ \A j \in 1 .. i - 1 : e[j] # ":"
        after == [i \in 1 .. Len(e) - p |-> e[p + i]]
        keep  == {i \in DOMAIN after : after[i] \notin whitespace}
        lo    == CHOOSE i \in keep : \A j \in keep : i <= j
        hi    == CHOOSE i \in keep : \A j \in keep : j <= i
    IN  IF keep = {} THEN << >>
        ELSE [i \in 1 .. hi - lo + 1 |-> lower_char(after[lo + i - 1])]

(* The first n strings of xs, "; " between one and the next.                *)
RECURSIVE C29_Joined(_, _)
C29_Joined(xs, n) ==
    IF n = 0 THEN << >>
    ELSE IF n = 1 THEN xs[1]
    ELSE C29_Joined(xs, n - 1) \o <<";", " ">> \o xs[n]

(* C29: examples_to_visuals returns at most three snippets joined by "; ", *)
(* each one the text after the first colon of an example, stripped and in  *)
(* lower case, in the order of the examples; an example without a colon    *)
(* gives no snippet and does not count toward the three; without any       *)
(* example holding a colon the result is the empty string.                  *)
C29_FirstThreeSnippets ==
    result # << >> =>
        LET k        == Min(3, Cardinality(C29_WithColon))
            snippets == [j \in 1 .. k |-> C29_Snippet(examples[C29_Nth(j)])]
        IN  /\ result[1] = C29_Joined(snippets, k)
            /\ C29_WithColon = {} => result[1] = << >>

(* The first of four examples holds no colon and the other three do: the   *)
(* result ends with the snippet of the fourth.                              *)
C29_Witness ==
    /\ result # << >>
    /\ Len(examples) = 4
    /\ C29_WithColon = {2, 3, 4}
    /\ examples[4] = <<"T", ":", " ", "S", "v", " ">>
    /\ Len(visuals) = 3
    /\ SubSeq(result[1], Len(result[1]) - 2, Len(result[1]))
           = <<" ", "s", "v">>

(* No example holds a colon.                                                *)
C29_WitnessEmpty ==
    /\ result = << << >> >>
    /\ Len(examples) = 2
    /\ C29_WithColon = {}

(* n in two digits, n < 100.                                                *)
C28_TwoDigits(n) == <<digits[(n \div 10) + 1], digits[(n % 10) + 1]>>

(* The name of the file of the j-th card of the catalog.                    *)
C28_Name(j) ==
    LET card == FullDeck[j]
    IN  (IF j <= Len(MAJOR_ARCANA)
         THEN <<"m", "a", "j", "o", "r">> \o <<"_">> \o C28_TwoDigits(j)
         ELSE str_lower(chars_of(card.card_type)) \o <<"_">>
                  \o C28_TwoDigits(card.number))
        \o <<"_">> \o slugify(chars_of(card.name))
        \o <<".", "t", "x", "t">>

(* The files one run writes.                                                *)
C28_Files ==
    [f \in {C28_Name(j) : j \in DOMAIN FullDeck} |->
        LET j    == CHOOSE i \in DOMAIN FullDeck : C28_Name(i) = f
            card == FullDeck[j]
        IN  <<IF j <= Len(MAJOR_ARCANA) THEN build_major_prompt(card, j)
                                        ELSE build_minor_prompt(card),
              "\n">>]

(* C28: the file of the i-th Major card is major_{i in two digits}_{slug   *)
(* of its name}.txt, that of a Minor card {suit prefix}_{rank in two       *)
(* digits}_{slug of its name}.txt; the 78 names are pairwise distinct, so  *)
(* that a run writes 78 files and overwrites none of them; a second run    *)
(* gives the same names and the same contents.                              *)
C28_DeterministicNames ==
    /\ \A j \in DOMAIN generated :
           generated[j] = <<C28_Name(j), FullDeck[j].name>>
    /\ \A j, k \in DOMAIN generated :
           j # k => generated[j][1] # generated[k][1]
    /\ runs = 1 => Cardinality(DOMAIN files) = Len(generated)
    /\ Len(generated) = 78 => Cardinality(DOMAIN files) = 78
    /\ (runs >= 2 \/ Len(generated) = 78) => files = C28_Files

(* The second run is over.                                                  *)
C28_Witness ==
    /\ runs = 2
    /\ Len(generated) = 78
    /\ Cardinality(DOMAIN files) = 78
    /\ generated[1][1] =
           <<"m", "a", "j", "o", "r", "_", "0", "1", "_", "t", "h", "e", "_",
             "c", "a", "s", "c", "a", "d", "e", ".", "t", "x", "t">>
    /\ generated[78][1] =
           <<"r", "e", "s", "o", "u", "r", "c", "e", "s", "_", "1", "4", "_",
             "k", "i", "n", "g", "_", "o", "f", "_", "r", "e", "s", "o", "u",
             "r", "c", "e", "s", ".", "t", "x", "t">>

(* C27: the loop of main ends only on the choice "7"; the choices "1" to   *)
(* "5" each make one reading, with one draw, and come back to the menu;    *)
(* the choice "6" and an unrecognised input come back to the menu and      *)
(* leave the draw order as it was; the choice "7" ends the loop without a  *)
(* draw; the session made at the start is the one used throughout.          *)
C27_LoopEndsOnlyOnSeven ==
    /\ mainPc \in {"exited", "raised"} => choice = <<"7">>
    /\ (mainPc = "pause" /\ choice \in reading_choices) =>
           /\ lastOp = "draw"
           /\ readingDraws = 1
    /\ (mainPc = "pause" /\ choice \notin reading_choices) =>
           /\ deck = deckBefore
           /\ readingDraws = 0
    /\ mainPc = "exited" =>
           /\ deck = deckBefore
           /\ drawn = << >>
    /\ full_deck = refs(FullDeck)
=============================================================================
